---- MODULE Spec2Model ----
(***************************************************************************)
(* Model of the mind-map construction core of nicolas-ricc/oort (ml crate). *)
(*                                                                         *)
(*   SpecText     src/ml/src/models/concepts/truncation.rs                 *)
(*                truncate_at_sentence_boundary and chunk_text over UTF-8  *)
(*                byte strings.                                            *)
(*                                                                         *)
(*   SpecMindMap  src/ml/src/dimensionality.rs                              *)
(*                MindMapProcessor::process_concepts: merge_similar_concepts, *)
(*                build_similarity_matrix, run_force_directed_layout and   *)
(*                build_concept_groups.                                    *)
(*                                                                         *)
(* A text is a sequence of byte values (0..255) that is valid UTF-8; byte  *)
(* positions are 0-based as in the source, Byte(s, i) reads position i.    *)
(***************************************************************************)
EXTENDS Integers, Sequences, FiniteSets, TLC

VARIABLES
    pc,          \* position of the modelled call: "call", "loop", "merged", "matrix",
                 \* "layout", "done", "error" (an Err result), "panic"
    op,          \* which function the run calls: "truncate", "chunk", "process_concepts"
    text,        \* the input text (bytes)
    max_bytes,   \* truncate_at_sentence_boundary's max_bytes
    chunk_size,  \* chunk_text's chunk_size
    overlap,     \* chunk_text's overlap
    start,       \* chunk_text's `start`
    chunks,      \* chunk_text's `chunks` (sequence of byte strings)
    spans,       \* for each pushed chunk, the byte range <<start, actual_end>> it was cut from
    result,      \* the String returned by truncate_at_sentence_boundary
    concepts,           \* process_concepts' `concepts`, indexed from 0
    embeddings,         \* process_concepts' `embeddings`, indexed from 0
    merged_groups,      \* the Vec returned by merge_similar_concepts
    similarity_matrix,  \* MindMapProcessor.similarity_matrix
    positions,          \* MindMapProcessor.positions
    concept_groups,     \* MindMapProcessor.concept_groups
    response,           \* parse_concepts_response: the `concepts` array of the LLM's JSON
    json_ok,            \* parse_concepts_response: whether `response` deserializes
    cursor,             \* parse_concepts_response: number of array values consumed
    parsed,             \* parse_concepts_response: its Vec `concepts`
    chunk_results,      \* merge_chunk_concepts' argument
    best_by_name,       \* merge_chunk_concepts' HashMap
    merged,             \* the Vec returned by merge_chunk_concepts
    texts,              \* get_batch_embeddings' argument
    valid_texts,        \* get_batch_embeddings' `valid_texts`
    in_flight,          \* indices of the futures of join_all that have not completed
    completed,          \* indices of the completed futures, in completion order
    outputs,            \* outputs[k]: what future k completed with
    batch_result,       \* the Ok value returned by get_batch_embeddings
    user_id,            \* process_text: whether the request carries a user_id
    is_uploaded_text,   \* process_text: whether the text came in the request (not a URL)
    concepts_future,    \* process_text: state and output of generate_concepts
    db_future,          \* process_text: state and output of get_user_concepts
    new_concepts,       \* process_text: `new_concepts`
    user_concepts,      \* process_text: `user_concepts`
    new_embeddings,     \* process_text: `new_embeddings`
    embedder_calls,     \* arguments of the calls of get_batch_embeddings so far
    merger_calls,       \* arguments of the calls of process_concepts so far
    save_task,          \* the spawned task that saves the new concepts
    reference_task,     \* the spawned task that saves the text reference and uploads
    http_response,      \* what process_text returned (status "none" while it runs)
    rows,               \* get_user_concepts: the rows the query returned
    row_index,          \* get_user_concepts: number of rows the loop has consumed
    results,            \* get_user_concepts: its Vec `results`
    lookup_result,      \* what get_user_concepts returned (status "none" while it runs)
    extraction,         \* extract_candidates: its arguments and what RAKE and TF-IDF gave
    scored,             \* extract_candidates: its HashMap `scored`
    stem_groups,        \* extract_candidates: its HashMap `stem_groups`
    candidates,         \* the Vec extract_candidates returned
    api_error,          \* error_response: the ApiError `self`
    error_response,     \* the HttpResponse error_response built
    text_len,           \* generate_concepts: text.len()
    llm_calls,          \* generate_concepts: the call_llm futures, one per chunk
    generate_result,    \* what generate_concepts returned (status "none" while it runs)
    force_params,       \* MindMapProcessor.force_params
    iteration,          \* run_force_directed_layout: physics steps performed so far
    total_energy,       \* run_force_directed_layout: what the last step returned
    window,             \* find_last_boundary's argument
    next_match,         \* find_last_boundary: byte position where find_iter searches next
    best_sentence,      \* find_last_boundary: `best_sentence` (NotFound for None)
    decided             \* what find_last_boundary returned, and the tier that decided it

textVars == <<op, text, max_bytes, chunk_size, overlap, start, chunks, spans, result>>

mapVars ==
    <<concepts, embeddings, merged_groups, similarity_matrix, positions, concept_groups>>

parseVars == <<response, json_ok, cursor, parsed>>

mergeVars == <<chunk_results, best_by_name, merged>>

batchVars == <<texts, valid_texts, in_flight, completed, outputs, batch_result>>

requestVars ==
    <<user_id, is_uploaded_text, concepts_future, db_future, new_concepts, user_concepts,
      new_embeddings, embedder_calls, merger_calls, save_task, reference_task,
      http_response>>

rowVars == <<rows, row_index, results, lookup_result>>

\* the variables of the functions modelled after process_text
nlpVars == <<extraction, scored, stem_groups, candidates>>

errorVars == <<api_error, error_response>>

generateVars == <<text_len, llm_calls, generate_result>>

layoutVars == <<force_params, iteration, total_energy>>

boundaryVars == <<window, next_match, best_sentence, decided>>

restVars == <<rowVars, nlpVars, errorVars, generateVars, layoutVars, boundaryVars>>

extVars == <<parseVars, mergeVars, batchVars, requestVars, restVars>>

\* what the actions of one function leave unchanged
parseFrame == <<textVars, mapVars, mergeVars, batchVars, requestVars, restVars>>

mergeFrame == <<textVars, mapVars, parseVars, batchVars, requestVars, restVars>>

batchFrame == <<textVars, mapVars, parseVars, mergeVars, requestVars, restVars>>

requestFrame == <<textVars, mapVars, parseVars, mergeVars, batchVars, restVars>>

firstVars == <<textVars, mapVars, parseVars, mergeVars, batchVars, requestVars>>

rowFrame == <<firstVars, nlpVars, errorVars, generateVars, layoutVars, boundaryVars>>

nlpFrame == <<firstVars, rowVars, errorVars, generateVars, layoutVars, boundaryVars>>

errorFrame == <<firstVars, rowVars, nlpVars, generateVars, layoutVars, boundaryVars>>

generateFrame == <<firstVars, rowVars, nlpVars, errorVars, layoutVars, boundaryVars>>

\* the layout steps work on the processor's similarity_matrix and positions
layoutFrame ==
    <<textVars, concepts, embeddings, merged_groups, concept_groups, parseVars, mergeVars,
      batchVars, requestVars, rowVars, nlpVars, errorVars, generateVars, boundaryVars>>

\* the steps of the sentence tier work on text, max_bytes and result
boundaryFrame ==
    <<chunk_size, overlap, start, chunks, spans, mapVars, parseVars, mergeVars, batchVars,
      requestVars, rowVars, nlpVars, errorVars, generateVars, layoutVars>>

vars == <<pc, textVars, mapVars, extVars>>

\* the variables of the functions a run does not call keep their empty values
TextIdle ==
    /\ text = <<>> /\ max_bytes = 0 /\ chunk_size = 0 /\ overlap = 0
    /\ start = 0 /\ chunks = <<>> /\ spans = <<>> /\ result = <<>>

MapIdle ==
    /\ concepts = <<>> /\ embeddings = <<>> /\ merged_groups = <<>>
    /\ similarity_matrix = <<>> /\ positions = <<>> /\ concept_groups = <<>>

ParseIdle == response = <<>> /\ json_ok = TRUE /\ cursor = 0 /\ parsed = <<>>

MergeIdle == chunk_results = <<>> /\ best_by_name = <<>> /\ merged = <<>>

BatchIdle ==
    /\ texts = <<>> /\ valid_texts = <<>> /\ in_flight = {} /\ completed = <<>>
    /\ outputs = <<>> /\ batch_result = <<>>

NotSpawned == [pc |-> "none", log |-> <<>>]

Pending == [state |-> "pending", value |-> <<>>]

RequestIdle ==
    /\ user_id = FALSE /\ is_uploaded_text = FALSE
    /\ concepts_future = Pending /\ db_future = Pending
    /\ new_concepts = <<>> /\ user_concepts = <<>> /\ new_embeddings = <<>>
    /\ embedder_calls = <<>> /\ merger_calls = <<>>
    /\ save_task = NotSpawned /\ reference_task = NotSpawned
    /\ http_response = [status |-> "none", data |-> <<>>]

NoResult == [status |-> "none", value |-> <<>>, detail |-> ""]

RowIdle == rows = <<>> /\ row_index = 0 /\ results = <<>> /\ lookup_result = NoResult

NlpIdle == extraction = <<>> /\ scored = <<>> /\ stem_groups = <<>> /\ candidates = <<>>

ErrorIdle == api_error = <<>> /\ error_response = <<>>

GenerateIdle == text_len = 0 /\ llm_calls = <<>> /\ generate_result = NoResult

LayoutIdle == force_params = <<>> /\ iteration = 0 /\ total_energy = 0

NoBoundary == [pos |-> 0, tier |-> "none"]

BoundaryIdle ==
    window = <<>> /\ next_match = 0 /\ best_sentence = -1 /\ decided = NoBoundary

RestIdle ==
    RowIdle /\ NlpIdle /\ ErrorIdle /\ GenerateIdle /\ LayoutIdle /\ BoundaryIdle

ExtIdle == ParseIdle /\ MergeIdle /\ BatchIdle /\ RequestIdle /\ RestIdle

FirstIdle == TextIdle /\ MapIdle /\ ParseIdle /\ MergeIdle /\ BatchIdle /\ RequestIdle

----------------------------------------------------------------------------
(* Bounds of the model.                                                    *)

MaxTextChars == 4

MaxLimit == 4

MaxOverlap == 1

MaxConcepts == 3

----------------------------------------------------------------------------
(* UTF-8 byte strings.                                                     *)

Alphabet ==
    { <<97>>,        \* "a"   matches [a-z,)]
      <<46>>,        \* "."   matches [.!?]
      <<32>>,        \* " "   ASCII white space
      <<10>>,        \* "\n"
      <<35>>,        \* "#"
      <<195, 169>>,  \* U+00E9, two bytes, alphabetic, not white space
      <<194, 160>> } \* U+00A0 NO-BREAK SPACE, two bytes, White_Space

RECURSIVE TextsOfChars(_)
TextsOfChars(k) ==
    IF k = 0 THEN { <<>> }
    ELSE { t \o c : t \in TextsOfChars(k - 1), c \in Alphabet }

Texts == UNION { TextsOfChars(k) : k \in 0..MaxTextChars }

NotFound == -1

Panicked == -2

Ellipsis == <<46, 46, 46>>

Byte(s, i) == s[i + 1]

Slice(s, from, to) == SubSeq(s, from + 1, to)

Min(a, b) == IF a <= b THEN a ELSE b

SetMax(S) == CHOOSE x \in S : \A y \in S : y <= x

IsContinuation(b) == b >= 128 /\ b < 192

IsCharBoundary(s, index) ==
    \/ index = 0
    \/ index = Len(s)
    \/ index < Len(s) /\ ~IsContinuation(Byte(s, index))

RECURSIVE FloorDown(_, _)
FloorDown(s, i) ==
    IF i > 0 /\ ~IsCharBoundary(s, i) THEN FloorDown(s, i - 1) ELSE i

FloorCharBoundary(s, index) == FloorDown(s, Min(index, Len(s)))

\* char::is_whitespace / regex \s for the character that starts at byte p
IsWhitespaceAt(s, p) ==
    /\ p < Len(s)
    /\ \/ Byte(s, p) \in {9, 10, 11, 12, 13, 32}
       \/ Byte(s, p) = 194 /\ p + 1 < Len(s) /\ Byte(s, p + 1) \in {133, 160}

\* str::rfind(|c: char| c.is_whitespace()): byte position of the last such char
RFindWhitespace(s) ==
    LET hits == { p \in 0..(Len(s) - 1) : IsCharBoundary(s, p) /\ IsWhitespaceAt(s, p) }
    IN  IF hits = {} THEN NotFound ELSE SetMax(hits)

\* str::rfind(pat) for a non-empty pattern
RFindStr(s, pat) ==
    LET hits == { p \in 0..(Len(s) - Len(pat)) : Slice(s, p, p + Len(pat)) = pat }
    IN  IF hits = {} THEN NotFound ELSE SetMax(hits)

ToLowerByte(b) == IF b >= 65 /\ b <= 90 THEN b + 32 ELSE b

ToLowercase(s) == [i \in 1..Len(s) |-> ToLowerByte(s[i])]

IsAsciiAlphabetic(b) == (b >= 65 /\ b <= 90) \/ (b >= 97 /\ b <= 122)

ABBREVIATIONS ==
    { <<109,114>>, <<109,114,115>>, <<109,115>>, <<100,114>>, <<112,114,111,102>>,
      <<115,114>>, <<106,114>>, <<115,116>>, <<118,115>>, <<101,116,99>>, <<105,110,99>>,
      <<108,116,100>>, <<100,101,112,116>>, <<97,112,112,114,111,120>>, <<102,105,103>>,
      <<101,113>>, <<118,111,108>>, <<110,111>>, <<103,101,110>>, <<103,111,118>>,
      <<101,103>>, <<105,101>> }

TLDS ==
    { <<99,111,109>>, <<111,114,103>>, <<110,101,116>>, <<105,111>>, <<101,100,117>>,
      <<103,111,118>>, <<99,111>> }

----------------------------------------------------------------------------
(* is_abbreviation and find_last_boundary.                                 *)

\* word_start of is_abbreviation: one byte after the last white-space char's
\* first byte in text[..=match_start], or 0
AbbrevWordStart(t, match_start) ==
    LET before == Slice(t, 0, match_start + 1)
        p == RFindWhitespace(before)
    IN  IF p = NotFound THEN 0 ELSE p + 1

\* the slice &text[word_start..=match_start] fails when word_start is inside a code point
AbbrevPanics(t, match_start) ==
    ~IsCharBoundary(t, AbbrevWordStart(t, match_start))

IsAbbreviation(t, match_start) ==
    LET word == ToLowercase(Slice(t, AbbrevWordStart(t, match_start), match_start + 1))
    IN  \/ Len(word) = 1 /\ IsAsciiAlphabetic(word[1])
        \/ word \in ABBREVIATIONS
        \/ word \in TLDS

\* start positions of the matches of [a-z,)][.!?](\s|$) in win; two matches
\* never overlap (the bytes of a match belong to disjoint classes), so find_iter
\* yields every position at which the pattern matches
SentenceMatches(win) ==
    { p \in 0..(Len(win) - 2) :
        /\ Byte(win, p) \in (97..122) \cup {44, 41}
        /\ Byte(win, p + 1) \in {46, 33, 63}
        /\ (p + 2 = Len(win) \/ IsWhitespaceAt(win, p + 2)) }

MinPos(win) == Len(win) \div 5

\* matches for which is_abbreviation is evaluated (cut >= min_pos)
SentenceCandidates(win) ==
    { p \in SentenceMatches(win) : p + 2 >= MinPos(win) }

BestSentence(win) ==
    LET ok == { p \in SentenceCandidates(win) : ~IsAbbreviation(win, p) }
    IN  IF ok = {} THEN NotFound ELSE SetMax(ok) + 2

TierOrElse(pos, min_pos, otherwise) ==
    IF pos # NotFound /\ pos >= min_pos THEN pos ELSE otherwise

FindLastBoundary(win) ==
    LET min_pos == MinPos(win)
        ws == RFindWhitespace(win)
        tierF == Len(win)
        tierE == IF ws # NotFound /\ ws > 0 THEN ws ELSE tierF
        tierD == TierOrElse(RFindStr(win, <<10>>), min_pos, tierE)
        tierC == TierOrElse(RFindStr(win, <<10, 35>>), min_pos, tierD)
        tierB == TierOrElse(RFindStr(win, <<10, 10>>), min_pos, tierC)
    IN  IF \E p \in SentenceCandidates(win) : AbbrevPanics(win, p)
        THEN Panicked
        ELSE IF BestSentence(win) # NotFound THEN BestSentence(win)
        ELSE tierB

----------------------------------------------------------------------------
(* truncate_at_sentence_boundary.                                          *)

\* SafeEnd with a fault: the window is the whole text, not its first m bytes
SafeEndWhole(t, m) == Len(t)

SafeEnd(t, m) == FloorCharBoundary(t, m)

TruncatePos(t, m) == FindLastBoundary(Slice(t, 0, SafeEnd(t, m)))

\* TruncateOutput with a fault: the marker is not appended
TruncateOutputBare(t, pos) == Slice(t, 0, pos)

TruncateOutput(t, pos) == Slice(t, 0, pos) \o Ellipsis

TruncatePanics(t, m) ==
    /\ Len(t) > m
    /\ SafeEnd(t, m) # 0
    /\ \/ TruncatePos(t, m) = Panicked
       \/ ~IsCharBoundary(t, TruncatePos(t, m))

TruncateAtSentenceBoundary(t, m) ==
    IF Len(t) <= m THEN t
    ELSE IF SafeEnd(t, m) = 0 THEN <<>>
    ELSE TruncateOutput(t, TruncatePos(t, m))

Truncate ==
    /\ pc = "call"
    /\ op = "truncate"
    /\ IF TruncatePanics(text, max_bytes)
       THEN pc' = "panic" /\ result' = result
       ELSE pc' = "done" /\ result' = TruncateAtSentenceBoundary(text, max_bytes)
    /\ UNCHANGED <<op, text, max_bytes, chunk_size, overlap, start, chunks, spans>>
    /\ UNCHANGED <<mapVars, extVars>>

----------------------------------------------------------------------------
(* chunk_text.                                                             *)

RECURSIVE CeilUp(_, _)
CeilUp(s, i) ==
    IF i < Len(s) /\ ~IsCharBoundary(s, i) THEN CeilUp(s, i + 1) ELSE i

\* WindowEnd with a fault: rounds the window end up to the next char boundary
WindowEndCeil(t, s, cs) == CeilUp(t, Min(s + cs, Len(t)))

WindowEnd(t, s, cs) == FloorCharBoundary(t, s + cs)

\* OverlapStart with a fault: the overlap is never subtracted
OverlapStartNone(t, actual_end, ov) == actual_end

OverlapStart(t, actual_end, ov) ==
    IF actual_end > ov THEN FloorCharBoundary(t, actual_end - ov) ELSE actual_end

\* NextStart with a fault: the fallback skips the byte at the cut
NextStartSkip(t, s, actual_end, ov) ==
    IF OverlapStart(t, actual_end, ov) <= s THEN actual_end + 1
    ELSE OverlapStart(t, actual_end, ov)

NextStart(t, s, actual_end, ov) ==
    IF OverlapStart(t, actual_end, ov) <= s THEN actual_end
    ELSE OverlapStart(t, actual_end, ov)

\* if text.len() <= chunk_size { return vec![text.to_string()]; }
ChunkShort ==
    /\ pc = "call"
    /\ op = "chunk"
    /\ Len(text) <= chunk_size
    /\ chunks' = <<text>>
    /\ spans' = << <<0, Len(text)>> >>
    /\ pc' = "done"
    /\ UNCHANGED <<op, text, max_bytes, chunk_size, overlap, start, result>>
    /\ UNCHANGED <<mapVars, extVars>>

\* let mut chunks = Vec::new(); let mut start = 0;
ChunkEnter ==
    /\ pc = "call"
    /\ op = "chunk"
    /\ Len(text) > chunk_size
    /\ chunks' = <<>>
    /\ spans' = <<>>
    /\ start' = 0
    /\ pc' = "loop"
    /\ UNCHANGED <<op, text, max_bytes, chunk_size, overlap, result>>
    /\ UNCHANGED <<mapVars, extVars>>

\* remaining <= chunk_size: push the rest and break
ChunkLast ==
    /\ pc = "loop"
    /\ start < Len(text)
    /\ Len(text) - start <= chunk_size
    /\ chunks' = Append(chunks, Slice(text, start, Len(text)))
    /\ spans' = Append(spans, <<start, Len(text)>>)
    /\ pc' = "done"
    /\ UNCHANGED <<op, text, max_bytes, chunk_size, overlap, start, result>>
    /\ UNCHANGED <<mapVars, extVars>>

\* one full iteration of the loop body that cuts a window.  An iteration that
\* does not advance `start` repeats forever in the source, pushing one more
\* empty chunk each time.  Every iteration that advances moves `start` by at
\* least one byte, so a run that has always advanced has Len(chunks) <= start:
\* the guard on Len(chunks) only cuts a run after it has repeated an
\* iteration without advancing.
ChunkStep ==
    /\ pc = "loop"
    /\ start < Len(text)
    /\ Len(text) - start > chunk_size
    /\ Len(chunks) <= start + 1
    /\ LET window_end == WindowEnd(text, start, chunk_size)
           boundary == FindLastBoundary(Slice(text, start, window_end))
           actual_end == start + boundary
       IN  IF \/ ~IsCharBoundary(text, start)
              \/ ~IsCharBoundary(text, window_end)
              \/ window_end < start
              \/ boundary = Panicked
              \/ ~IsCharBoundary(text, actual_end)
           THEN pc' = "panic" /\ UNCHANGED <<start, chunks, spans>>
           ELSE /\ chunks' = Append(chunks, Slice(text, start, actual_end))
                /\ spans' = Append(spans, <<start, actual_end>>)
                /\ start' = NextStart(text, start, actual_end, overlap)
                /\ pc' = "loop"
    /\ UNCHANGED <<op, text, max_bytes, chunk_size, overlap, result>>
    /\ UNCHANGED <<mapVars, extVars>>

----------------------------------------------------------------------------
(* Specification of the text functions: every text over Alphabet of at     *)
(* most MaxTextChars characters, every limit and overlap within bounds.    *)

InitText ==
    /\ pc = "call"
    /\ text \in Texts
    /\ \/ /\ op = "truncate"
          /\ max_bytes \in 0..MaxLimit
          /\ chunk_size = 0
          /\ overlap = 0
       \/ /\ op = "chunk"
          /\ max_bytes = 0
          /\ chunk_size \in 0..MaxLimit
          /\ overlap \in 0..MaxOverlap
    /\ start = 0
    /\ chunks = <<>>
    /\ spans = <<>>
    /\ result = <<>>
    /\ concepts = <<>>
    /\ embeddings = <<>>
    /\ merged_groups = <<>>
    /\ similarity_matrix = <<>>
    /\ positions = <<>>
    /\ concept_groups = <<>>
    /\ ExtIdle

NextText ==
    \/ Truncate
    \/ ChunkShort
    \/ ChunkEnter
    \/ ChunkLast
    \/ ChunkStep

SpecText == InitText /\ [][NextText]_vars

----------------------------------------------------------------------------
(* Properties of chunk_text and truncate_at_sentence_boundary.             *)

\* the loop of chunk_text is only ever entered with start < text.len()
LoopConditionHolds == pc = "loop" => start < Len(text)

SpanStart(k) == spans[k][1]

SpanEnd(k) == spans[k][2]

EndsWithEllipsis(s) ==
    Len(s) >= 3 /\ SubSeq(s, Len(s) - 2, Len(s)) = Ellipsis

\* the first k chunks joined, each without the bytes the earlier ones already cover
RECURSIVE Stitch(_)
Stitch(k) ==
    IF k = 0 THEN <<>>
    ELSE LET prev == Stitch(k - 1)
             covered == Len(prev)
         IN  IF SpanEnd(k) <= covered THEN prev
             ELSE IF SpanStart(k) > covered THEN prev \o chunks[k]
             ELSE prev \o SubSeq(chunks[k], covered - SpanStart(k) + 1, Len(chunks[k]))

\* C5 (as claimed): for chunk_size >= 1 every iteration of the chunking loop
\* that stays in the loop moves `start` strictly forward.
ChunkForwardProgress ==
    [][(op = "chunk" /\ chunk_size >= 1 /\ pc = "loop" /\ pc' = "loop")
          => start' > start]_vars

\* C6: the chunks cover the text without gaps: the first chunk starts at byte 0,
\* every later chunk starts at or before the byte where the previous one ended,
\* each chunk is the text between its two cut positions, and on return the last
\* chunk ends at the end of the text and the chunks joined without their
\* overlapped prefixes are exactly the text.
ChunkCoverage ==
    op = "chunk" =>
        /\ Len(spans) = Len(chunks)
        /\ (spans # <<>> => SpanStart(1) = 0)
        /\ \A k \in 1..Len(spans) :
              chunks[k] = Slice(text, SpanStart(k), SpanEnd(k))
        /\ \A k \in 1..(Len(spans) - 1) : SpanStart(k + 1) <= SpanEnd(k)
        /\ (pc = "done" =>
              /\ spans # <<>>
              /\ SpanEnd(Len(spans)) = Len(text)
              /\ Stitch(Len(chunks)) = text)

\* C6 witness: a returned list of three or more chunks with a removed overlap.
ChunkCoverageWitness ==
    /\ op = "chunk"
    /\ pc = "done"
    /\ Len(chunks) >= 3
    /\ SpanStart(2) < SpanEnd(1)

\* C7 (as claimed): when |t| > cs every two consecutive returned chunks share
\* at least one byte.
ConsecutiveChunksShareByte ==
    (op = "chunk" /\ pc = "done" /\ Len(text) > chunk_size) =>
        \A k \in 1..(Len(spans) - 1) : SpanStart(k + 1) < SpanEnd(k)

\* C7 (amended): consecutive chunks share bytes exactly when overlap >= 1 and the
\* largest char boundary at or below (end of the earlier chunk - overlap) lies
\* strictly after the earlier chunk's start; they then share at least `overlap`
\* bytes.  Otherwise the later chunk starts exactly where the earlier one ended.
ChunkOverlapRule ==
    op = "chunk" =>
        \A k \in 1..(Len(spans) - 1) :
            IF /\ overlap >= 1
               /\ SpanEnd(k) > overlap
               /\ FloorCharBoundary(text, SpanEnd(k) - overlap) > SpanStart(k)
            THEN /\ SpanStart(k + 1) > SpanStart(k)
                 /\ SpanEnd(k) - SpanStart(k + 1) >= overlap
            ELSE SpanStart(k + 1) = SpanEnd(k)

\* C7 witness: a returned list in which one pair of neighbours shares bytes and
\* another pair does not, with overlap >= 1.
ChunkOverlapWitness ==
    /\ op = "chunk"
    /\ pc = "done"
    /\ overlap >= 1
    /\ \E k \in 1..(Len(spans) - 1) : SpanStart(k + 1) < SpanEnd(k)
    /\ \E k \in 1..(Len(spans) - 1) : SpanStart(k + 1) = SpanEnd(k)

\* C8: every chunk pushed by chunk_text is at most chunk_size bytes long.
ChunkWithinSize ==
    op = "chunk" => \A k \in 1..Len(chunks) : Len(chunks[k]) <= chunk_size

\* C8 witness: a returned list of several chunks, one of them of exactly
\* chunk_size bytes and holding a two-byte character.
ChunkWithinSizeWitness ==
    /\ op = "chunk"
    /\ pc = "done"
    /\ Len(chunks) >= 2
    /\ \E k \in 1..Len(chunks) :
          /\ Len(chunks[k]) = chunk_size
          /\ \E i \in 1..Len(chunks[k]) : IsContinuation(chunks[k][i])

\* C9 (as claimed): no call of truncate_at_sentence_boundary or chunk_text
\* fails on a slice inside a UTF-8 code point.
NoSliceFailure == pc # "panic"

TruncateLengthBound ==
    (op = "truncate" /\ pc = "done") => Len(result) <= max_bytes + 3

\* C11 witness: a truncated output that is exactly max_bytes + 3 bytes long.
TruncateLengthWitness ==
    /\ op = "truncate"
    /\ pc = "done"
    /\ Len(text) > max_bytes
    /\ max_bytes > 0
    /\ Len(result) = max_bytes + 3

----------------------------------------------------------------------------
(* MindMapProcessor (dimensionality.rs).                                   *)
(*                                                                         *)
(* Vectors are sequences of integers.  A cosine similarity c is kept as the *)
(* fraction num/den = sign(c) * c^2; x |-> sign(x) * x^2 is strictly        *)
(* increasing, so every comparison of the source (c > 0, c > threshold) is  *)
(* decided exactly.  Input components are multiples of Scale, so the mean   *)
(* of up to MaxConcepts embeddings is computed without rounding.            *)
(* Indices run from 0 as in the source.  The float-valued outputs           *)
(* (importance_score, the coordinates the physics steps produce) are not    *)
(* part of this model: a position stands for the slot the layout fills.     *)

RECURSIVE Factorial(_)
Factorial(k) == IF k <= 1 THEN 1 ELSE k * Factorial(k - 1)

Scale == Factorial(MaxConcepts)

Directions ==
    { <<1, 0>>, <<1, 1>>, <<0, 1>>, <<1, 2>>, <<-1, 1>>, <<0, 0>> }

\* embeddings a request can hand over: two-dimensional ones and the
\* zero-dimensional one the guard rejects
EmbeddingSet ==
    { [d \in 1..2 |-> Scale * v[d]] : v \in Directions } \cup { <<>> }

ThresholdNum == 7

ThresholdDen == 10

DefaultImportance == 5

RECURSIVE SumTo(_, _)
SumTo(f, k) == IF k = 0 THEN 0 ELSE f[k] + SumTo(f, k - 1)

Dot(a, b) == SumTo([d \in 1..Len(a) |-> a[d] * b[d]], Len(a))

SimZero == [num |-> 0, den |-> 1]

CosineSimilarity(a, b) ==
    LET norm_a2 == Dot(a, a)
        norm_b2 == Dot(b, b)
        dot == Dot(a, b)
    IN  IF norm_a2 = 0 \/ norm_b2 = 0 THEN SimZero
        ELSE [num |-> IF dot >= 0 THEN dot * dot ELSE 0 - dot * dot,
              den |-> norm_a2 * norm_b2]

\* a.dot(&b) on views of different lengths panics; it is reached only when
\* neither norm is 0
DotPanics(a, b) ==
    /\ Len(a) # Len(b)
    /\ Dot(a, a) # 0
    /\ Dot(b, b) # 0

\* some pair of the list makes cosine_similarity panic
PairPanics(embs) ==
    \E i, j \in 1..Len(embs) : i < j /\ DotPanics(embs[i], embs[j])

IsPositive(sim) == sim.num > 0

\* similarity > self.force_params.similarity_threshold
AboveThreshold(sim) ==
    /\ sim.num > 0
    /\ ThresholdDen * ThresholdDen * sim.num > ThresholdNum * ThresholdNum * sim.den

\* the n x n matrix the merger fills: every pair, both halves, diagonal 0
MergerMatrix(embs, n) ==
    [i \in 0..(n - 1) |-> [j \in 0..(n - 1) |->
        IF i = j THEN SimZero ELSE CosineSimilarity(embs[i], embs[j])]]

RECURSIVE FindRoot(_, _)
FindRoot(parent, x) ==
    IF parent[x] # x THEN FindRoot(parent, parent[x]) ELSE x

\* `parent` after find(parent, x): every node on the path points to the root
RECURSIVE FindCompress(_, _)
FindCompress(parent, x) ==
    IF parent[x] # x
    THEN [FindCompress(parent, parent[x]) EXCEPT ![x] = FindRoot(parent, parent[x])]
    ELSE parent

\* Union with a fault: links y itself, not y's root
UnionNoRoot(parent, x, y) ==
    LET root_x == FindRoot(parent, x)
        p1 == FindCompress(parent, x)
        root_y == FindRoot(p1, y)
        p2 == FindCompress(p1, y)
    IN  IF root_x # root_y THEN [p2 EXCEPT ![y] = root_x] ELSE p2

Union(parent, x, y) ==
    LET root_x == FindRoot(parent, x)
        p1 == FindCompress(parent, x)
        root_y == FindRoot(p1, y)
        p2 == FindCompress(p1, y)
    IN  IF root_x # root_y THEN [p2 EXCEPT ![root_y] = root_x] ELSE p2

\* for i in 0..n { for j in (i + 1)..n { if matrix[i][j] > threshold { union } } }
RECURSIVE GroupSimilar(_, _, _, _, _)
GroupSimilar(parent, matrix, n, i, j) ==
    IF i >= n THEN parent
    ELSE IF j >= n THEN GroupSimilar(parent, matrix, n, i + 1, i + 2)
    ELSE GroupSimilar(IF AboveThreshold(matrix[i][j]) THEN Union(parent, i, j) ELSE parent,
                      matrix, n, i, j + 1)

\* groups.entry(root).or_insert_with(Vec::new).push(i)
PushInto(groups, root, i) ==
    IF root \in DOMAIN groups
    THEN [groups EXCEPT ![root] = Append(@, i)]
    ELSE groups @@ (root :> <<i>>)

\* for i in from..n { let root = find(&mut parent, i); push }
RECURSIVE CollectFrom(_, _, _, _)
CollectFrom(groups, parent, n, i) ==
    IF i >= n THEN groups
    ELSE CollectFrom(PushInto(groups, FindRoot(parent, i), i),
                     FindCompress(parent, i), n, i + 1)

\* CollectGroups with a fault: the loop starts at index 1
CollectGroupsFromOne(parent, n) == CollectFrom(<<>>, parent, n, 1)

CollectGroups(parent, n) == CollectFrom(<<>>, parent, n, 0)

RECURSIVE VecSum(_, _, _)
VecSum(embs, indices, k) ==
    IF k = 0 THEN [d \in 1..Len(embs[indices[1]]) |-> 0]
    ELSE LET rest == VecSum(embs, indices, k - 1)
         IN  [d \in 1..Len(rest) |-> rest[d] + embs[indices[k]][d]]

AverageEmbedding(embs, indices) ==
    IF Len(indices) > 1
    THEN LET total == VecSum(embs, indices, Len(indices))
         IN  [d \in 1..Len(total) |-> total[d] \div Len(indices)]
    ELSE embs[indices[1]]

MergedGroup(cs, embs, root, indices) ==
    [ concepts    |-> [k \in 1..Len(indices) |-> cs[indices[k]].concept],
      embedding   |-> AverageEmbedding(embs, indices),
      importances |-> [k \in 1..Len(indices) |-> cs[indices[k]].importance],
      root        |-> root ]

\* the orders in which a HashMap with key set S can be iterated
Orders(S) ==
    { f \in [1..Cardinality(S) -> S] : \A a, b \in DOMAIN f : a # b => f[a] # f[b] }

MergeGuardFails ==
    \/ Len(concepts) = 0
    \/ Len(embeddings) = 0
    \/ Len(concepts) # Len(embeddings)
    \/ \E i \in DOMAIN embeddings : Len(embeddings[i]) = 0

Renumber(seq) == [i \in 0..(Len(seq) - 1) |-> seq[i + 1]]

\* merge_similar_concepts: the guards, the matrix, the unions, the groups in
\* the HashMap's iteration order
MergeSimilarConcepts ==
    /\ pc = "call"
    /\ op = "process_concepts"
    /\ IF MergeGuardFails
       THEN pc' = "error" /\ merged_groups' = merged_groups
       ELSE IF PairPanics(embeddings)
       THEN pc' = "panic" /\ merged_groups' = merged_groups
       ELSE LET n == Len(concepts)
                cs == Renumber(concepts)
                embs == Renumber(embeddings)
                parent == GroupSimilar([i \in 0..(n - 1) |-> i],
                                       MergerMatrix(embs, n), n, 0, 1)
                groups == CollectGroups(parent, n)
            IN  /\ \E order \in Orders(DOMAIN groups) :
                      merged_groups' =
                          [k \in 1..Len(order) |->
                              MergedGroup(cs, embs, order[k], groups[order[k]])]
                /\ pc' = "merged"
    /\ UNCHANGED <<concepts, embeddings, similarity_matrix, positions, concept_groups>>
    /\ UNCHANGED <<textVars, extVars>>

\* SimilarityMatrixOf with a fault: only the upper half is stored
SimilarityMatrixUpper(embs) ==
    LET n == Len(embs)
    IN  [i \in 0..(n - 1) |-> [j \in 0..(n - 1) |->
            IF i < j /\ IsPositive(CosineSimilarity(embs[i + 1], embs[j + 1]))
            THEN CosineSimilarity(embs[i + 1], embs[j + 1])
            ELSE SimZero]]

\* build_similarity_matrix: positive similarities, both halves, else 0
SimilarityMatrixOf(embs) ==
    LET n == Len(embs)
    IN  [i \in 0..(n - 1) |-> [j \in 0..(n - 1) |->
            IF i # j /\ IsPositive(CosineSimilarity(embs[i + 1], embs[j + 1]))
            THEN CosineSimilarity(embs[i + 1], embs[j + 1])
            ELSE SimZero]]

MergedEmbeddings == [k \in 1..Len(merged_groups) |-> merged_groups[k].embedding]

BuildSimilarityMatrix ==
    /\ pc = "merged"
    /\ IF PairPanics(MergedEmbeddings)
       THEN pc' = "panic" /\ similarity_matrix' = similarity_matrix
       ELSE /\ similarity_matrix' = SimilarityMatrixOf(MergedEmbeddings)
            /\ pc' = "matrix"
    /\ UNCHANGED <<concepts, embeddings, merged_groups, positions, concept_groups>>
    /\ UNCHANGED <<textVars, extVars>>

\* Array2::from_shape_vec((n, dim), flat) takes the flattened embeddings only
\* when they hold n * dim values, dim being the length of the first one
ShapeFits(embs) ==
    SumTo([k \in 1..Len(embs) |-> Len(embs[k])], Len(embs)) = Len(embs) * Len(embs[1])

\* run_force_directed_layout: one position per merged embedding, or the Err
\* of initialize_pca_positions (more than two groups: the matrix is not built
\* when the shape does not fit, and the PCA fit is the library's and may fail)
RunForceDirectedLayout ==
    /\ pc = "matrix"
    /\ LET n == Len(merged_groups)
       IN  \/ /\ n <= 2 \/ ShapeFits(MergedEmbeddings)
              /\ positions' = [i \in 0..(n - 1) |-> i]
              /\ pc' = "layout"
           \/ /\ n > 2
              /\ positions' = positions
              /\ pc' = "error"
    /\ UNCHANGED <<concepts, embeddings, merged_groups, similarity_matrix, concept_groups>>
    /\ UNCHANGED <<textVars, extVars>>

RECURSIVE SortedSeq(_)
SortedSeq(S) ==
    IF S = {} THEN <<>>
    ELSE LET m == CHOOSE x \in S : \A y \in S : x <= y
         IN  <<m>> \o SortedSeq(S \ {m})

\* roots.sort(); roots.dedup();
UniqueRoots(groups) == SortedSeq({ groups[k].root : k \in 1..Len(groups) })

\* GroupId with a fault: the root itself is the id
GroupIdIsRoot(unique_roots, root) == root

\* unique_roots.iter().position(|r| r == root).unwrap_or(0)
GroupId(unique_roots, root) ==
    LET hits == { p \in 1..Len(unique_roots) : unique_roots[p] = root }
    IN  IF hits = {} THEN 0 ELSE (CHOOSE p \in hits : \A q \in hits : p <= q) - 1

\* find_connections: the columns i # index of row `index` with similarity > 0, ascending
FindConnections(matrix, index) ==
    SortedSeq({ i \in DOMAIN matrix[index] : i # index /\ IsPositive(matrix[index][i]) })

\* the loop of build_concept_groups from list position i (0-based) on
RECURSIVE BuildFrom(_, _)
BuildFrom(acc, i) ==
    IF i >= Len(merged_groups) THEN acc
    ELSE IF i >= Cardinality(DOMAIN positions) THEN BuildFrom(acc, i + 1)
    ELSE BuildFrom(
            Append(acc,
                [ concepts          |-> merged_groups[i + 1].concepts,
                  reduced_embedding |-> positions[i],
                  connections       |-> FindConnections(similarity_matrix, i),
                  group_id          |-> GroupId(UniqueRoots(merged_groups),
                                                merged_groups[i + 1].root) ]),
            i + 1)

BuildConceptGroups ==
    /\ pc = "layout"
    /\ concept_groups' = BuildFrom(<<>>, 0)
    /\ pc' = "done"
    /\ UNCHANGED <<concepts, embeddings, merged_groups, similarity_matrix, positions>>
    /\ UNCHANGED <<textVars, extVars>>

ConceptLists ==
    { [i \in 1..n |-> [concept |-> i - 1, importance |-> DefaultImportance]] :
        n \in 0..MaxConcepts }

InitMindMap ==
    /\ pc = "call"
    /\ op = "process_concepts"
    /\ concepts \in ConceptLists
    /\ embeddings \in UNION { [1..n -> EmbeddingSet] : n \in 0..MaxConcepts }
    /\ merged_groups = <<>>
    /\ similarity_matrix = <<>>
    /\ positions = <<>>
    /\ concept_groups = <<>>
    /\ text = <<>>
    /\ max_bytes = 0
    /\ chunk_size = 0
    /\ overlap = 0
    /\ start = 0
    /\ chunks = <<>>
    /\ spans = <<>>
    /\ result = <<>>
    /\ ExtIdle

\* embeddings of one, two and three dimensions, some of them zero vectors
MixedEmbeddingSet ==
    { <<Scale>>, <<0>>, <<Scale, 0>>, <<0, Scale>>, <<0, 0>>, <<0, 0, 0>> }

\* process_concepts called, as process_text calls it, with one embedding per
\* concept, the embeddings not necessarily of one dimension
InitMixedDimensions ==
    /\ pc = "call"
    /\ op = "process_concepts"
    /\ embeddings \in UNION { [1..n -> MixedEmbeddingSet] : n \in 0..MaxConcepts }
    /\ concepts \in { cs \in ConceptLists : Len(cs) = Len(embeddings) }
    /\ merged_groups = <<>>
    /\ similarity_matrix = <<>>
    /\ positions = <<>>
    /\ concept_groups = <<>>
    /\ TextIdle
    /\ ExtIdle

NextMindMap ==
    \/ MergeSimilarConcepts
    \/ BuildSimilarityMatrix
    \/ RunForceDirectedLayout
    \/ BuildConceptGroups

SpecMindMap == InitMindMap /\ [][NextMindMap]_vars

SpecMixedDimensions == InitMixedDimensions /\ [][NextMindMap]_vars

----------------------------------------------------------------------------
(* Properties of process_concepts.                                         *)

Range(seq) == { seq[k] : k \in DOMAIN seq }

\* merge_similar_concepts has returned Ok
Merged == op = "process_concepts" /\ pc \in {"merged", "matrix", "layout", "done"}

Returned == op = "process_concepts" /\ pc = "done"

\* the list positions of merged_groups whose members include input concept i
\* (concept i of the input carries the name i)
GroupsHolding(i) ==
    { k \in 1..Len(merged_groups) : i \in Range(merged_groups[k].concepts) }

\* cosine similarity of input concepts i and j strictly above the threshold
Similar(i, j) ==
    /\ i # j
    /\ AboveThreshold(CosineSimilarity(embeddings[i + 1], embeddings[j + 1]))

\* the concepts reachable from the set S along chains of Similar pairs
RECURSIVE Linked(_)
Linked(S) ==
    LET T == S \cup { j \in 0..(Len(concepts) - 1) : \E i \in S : Similar(i, j) }
    IN  IF T = S THEN S ELSE Linked(T)

\* C1: the groups returned by merge_similar_concepts partition the input: the
\* member counts add up to n and every input concept is in exactly one group.
MergePartition ==
    Merged =>
        /\ SumTo([k \in 1..Len(merged_groups) |-> Len(merged_groups[k].concepts)],
                 Len(merged_groups)) = Len(concepts)
        /\ \A i \in 0..(Len(concepts) - 1) : Cardinality(GroupsHolding(i)) = 1
        /\ \A k \in 1..Len(merged_groups) :
              Range(merged_groups[k].concepts) \subseteq 0..(Len(concepts) - 1)

\* C1 witness: three concepts merged into two groups.
MergePartitionWitness ==
    /\ Merged
    /\ Len(concepts) = 3
    /\ Len(merged_groups) = 2

\* C2: two concepts are in the same group exactly when a chain of pairs with
\* cosine similarity strictly above similarity_threshold links them.
MergeIsTransitiveClosure ==
    Merged =>
        \A i, j \in 0..(Len(concepts) - 1) :
            (GroupsHolding(i) = GroupsHolding(j)) <=> (j \in Linked({i}))

\* C2 witness: two concepts share a group although their own similarity is
\* not above the threshold (only a chain links them).
MergeChainWitness ==
    /\ Merged
    /\ \E i, j \in 0..(Len(concepts) - 1) :
          /\ i # j
          /\ ~Similar(i, j)
          /\ GroupsHolding(i) = GroupsHolding(j)

\* C3: in the returned list of k groups the group_id values are pairwise
\* distinct, their set is 0..k-1, and each is the rank of the group's
\* union-find root among all roots in ascending order.
CompactGroupIds ==
    Returned =>
        LET k == Len(concept_groups)
            roots == { merged_groups[a].root : a \in 1..Len(merged_groups) }
        IN  /\ k = Len(merged_groups)
            /\ { concept_groups[a].group_id : a \in 1..k } = 0..(k - 1)
            /\ \A a, b \in 1..k :
                  a # b => concept_groups[a].group_id # concept_groups[b].group_id
            /\ \A a \in 1..k :
                  /\ concept_groups[a].concepts = merged_groups[a].concepts
                  /\ concept_groups[a].group_id =
                        Cardinality({ r \in roots : r < merged_groups[a].root })

\* C3 witness: a returned list whose groups were iterated out of root order
\* and in which a root differs from its group_id.
CompactGroupIdsWitness ==
    /\ Returned
    /\ \E a, b \in 1..Len(merged_groups) :
          a < b /\ merged_groups[a].root > merged_groups[b].root
    /\ \E a \in 1..Len(concept_groups) :
          concept_groups[a].group_id # merged_groups[a].root

\* C4: connections of the returned list are symmetric over list positions and
\* no group lists itself.
ConnectionsSymmetric ==
    Returned =>
        \A i, j \in 0..(Len(concept_groups) - 1) :
            /\ (j \in Range(concept_groups[i + 1].connections)
                  <=> i \in Range(concept_groups[j + 1].connections))
            /\ i \notin Range(concept_groups[i + 1].connections)
            /\ Range(concept_groups[i + 1].connections)
                  \subseteq 0..(Len(concept_groups) - 1)

\* C4 witness: a returned list with a connected pair and an unconnected pair.
ConnectionsWitness ==
    /\ Returned
    /\ \E i, j \in 0..(Len(concept_groups) - 1) :
          /\ i # j
          /\ j \in Range(concept_groups[i + 1].connections)
    /\ \E i, j \in 0..(Len(concept_groups) - 1) :
          /\ i # j
          /\ j \notin Range(concept_groups[i + 1].connections)

----------------------------------------------------------------------------
(* ConceptsModel (models/concepts/model.rs): parse_concepts_response.       *)
(*                                                                         *)
(* A name is a sequence of characters (code points).  An importance is     *)
(* kept in tenths (5 is 0.5).  A value of the `concepts` array is a record *)
(* [kind, name, importance]: kind "object" is {"name": .., "importance": ..}*)
(* with importance <<>> when the field is absent, kind "string" is a plain *)
(* string, kind "other" is any other JSON value or an object that does not *)
(* deserialize into ConceptEntry.                                          *)

MaxNameChars == 2

MaxEntries == 1

NameAlphabet == { 97, 65, 32, 45, 39 }   \* a A space - '

Names == UNION { [1..k -> NameAlphabet] : k \in 0..MaxNameChars }

ImportanceInputs == { <<>>, <<7>>, <<15>> }

Values ==
    { [kind |-> "object", name |-> n, importance |-> i] :
        n \in Names, i \in ImportanceInputs }
    \cup { [kind |-> "string", name |-> n, importance |-> <<>>] : n \in Names }
    \cup { [kind |-> "other", name |-> <<>>, importance |-> <<>>] }

Apostrophe == 39

Space == 32

IsWordChar(c) ==
    \/ c >= 48 /\ c <= 57
    \/ c >= 65 /\ c <= 90
    \/ c = 95
    \/ c >= 97 /\ c <= 122

IsSpaceChar(c) == c \in { 9, 10, 11, 12, 13, 32 }

\* re_punct.replace_all(text, " ")
ReplacePunct(s) ==
    [i \in 1..Len(s) |->
        IF IsWordChar(s[i]) \/ IsSpaceChar(s[i]) \/ s[i] = Apostrophe
        THEN s[i] ELSE Space]

\* re_apos.replace_all(text, " "): leftmost non-overlapping matches of \s'|'\s
RECURSIVE ReplaceApos(_)
ReplaceApos(s) ==
    IF Len(s) < 2 THEN s
    ELSE IF \/ IsSpaceChar(s[1]) /\ s[2] = Apostrophe
            \/ s[1] = Apostrophe /\ IsSpaceChar(s[2])
         THEN <<Space>> \o ReplaceApos(SubSeq(s, 3, Len(s)))
         ELSE <<s[1]>> \o ReplaceApos(Tail(s))

RECURSIVE TrimStart(_)
TrimStart(s) ==
    IF s # <<>> /\ IsSpaceChar(s[1]) THEN TrimStart(Tail(s)) ELSE s

RECURSIVE TrimEnd(_)
TrimEnd(s) ==
    IF s # <<>> /\ IsSpaceChar(s[Len(s)])
    THEN TrimEnd(SubSeq(s, 1, Len(s) - 1)) ELSE s

Trim(s) == TrimEnd(TrimStart(s))

\* re_spaces.replace_all(text, " ")
RECURSIVE CollapseSpaces(_)
CollapseSpaces(s) ==
    IF s = <<>> THEN <<>>
    ELSE IF IsSpaceChar(s[1]) THEN <<Space>> \o CollapseSpaces(TrimStart(s))
    ELSE <<s[1]>> \o CollapseSpaces(Tail(s))

CleanText(s) == Trim(CollapseSpaces(ReplaceApos(ReplacePunct(s))))

RECURSIVE FirstWord(_)
FirstWord(s) ==
    IF s = <<>> \/ IsSpaceChar(s[1]) THEN <<>>
    ELSE <<s[1]>> \o FirstWord(Tail(s))

RECURSIVE SplitWhitespace(_)
SplitWhitespace(s) ==
    LET t == TrimStart(s)
        w == FirstWord(t)
    IN  IF t = <<>> THEN <<>>
        ELSE <<w>> \o SplitWhitespace(SubSeq(t, Len(w) + 1, Len(t)))

RECURSIVE JoinSpace(_)
JoinSpace(words) ==
    IF words = <<>> THEN <<>>
    ELSE IF Len(words) = 1 THEN words[1]
    ELSE words[1] \o <<Space>> \o JoinSpace(Tail(words))

LemmatizeConcept(s) == JoinSpace(SplitWhitespace(CleanText(s)))

Clamp(i) == IF i < 0 THEN 0 ELSE IF i > 10 THEN 10 ELSE i

ImportanceOf(value) ==
    IF value.kind = "object" /\ value.importance # <<>>
    THEN Clamp(value.importance[1])
    ELSE DefaultImportance

NameAccepted(name) == name # <<>> /\ Len(SplitWhitespace(name)) <= 3

\* one iteration of `for value in concepts_response.concepts`
PushValue(acc, value) ==
    IF value.kind \in { "object", "string" } /\ NameAccepted(Trim(value.name))
    THEN Append(acc, [ concept    |-> LemmatizeConcept(Trim(value.name)),
                       importance |-> ImportanceOf(value) ])
    ELSE acc

ParseFail ==
    /\ pc = "call"
    /\ op = "parse"
    /\ ~json_ok
    /\ pc' = "error"
    /\ UNCHANGED <<parseVars, parseFrame>>

ParseEnter ==
    /\ pc = "call"
    /\ op = "parse"
    /\ json_ok
    /\ parsed' = <<>>
    /\ cursor' = 0
    /\ pc' = "loop"
    /\ UNCHANGED <<response, json_ok, parseFrame>>

ParseValue ==
    /\ pc = "loop"
    /\ op = "parse"
    /\ cursor < Len(response)
    /\ parsed' = PushValue(parsed, response[cursor + 1])
    /\ cursor' = cursor + 1
    /\ pc' = "loop"
    /\ UNCHANGED <<response, json_ok, parseFrame>>

ParseReturn ==
    /\ pc = "loop"
    /\ op = "parse"
    /\ cursor = Len(response)
    /\ pc' = "done"
    /\ UNCHANGED <<parseVars, parseFrame>>

InitParse ==
    /\ pc = "call"
    /\ op = "parse"
    /\ \/ json_ok = TRUE /\ response \in UNION { [1..n -> Values] : n \in 0..MaxEntries }
       \/ json_ok = FALSE /\ response = <<>>
    /\ cursor = 0
    /\ parsed = <<>>
    /\ MergeIdle
    /\ BatchIdle
    /\ RequestIdle
    /\ RestIdle
    /\ TextIdle
    /\ MapIdle

NextParse ==
    \/ ParseFail
    \/ ParseEnter
    \/ ParseValue
    \/ ParseReturn

SpecParse == InitParse /\ [][NextParse]_vars

\* C14 (as claimed): every Concept returned by parse_concepts_response has a
\* non-empty text of at most 3 whitespace-separated tokens.
ParsedTextWithinLimits ==
    (op = "parse" /\ pc = "done") =>
        \A k \in 1..Len(parsed) :
            /\ parsed[k].concept # <<>>
            /\ Len(SplitWhitespace(parsed[k].concept)) <= 3

\* C15 (as claimed): the text of every Concept returned is lowercase.
ParsedTextLowercase ==
    (op = "parse" /\ pc = "done") =>
        \A k \in 1..Len(parsed) : parsed[k].concept = ToLowercase(parsed[k].concept)

----------------------------------------------------------------------------
(* ConceptsModel::merge_chunk_concepts.                                    *)
(*                                                                         *)
(* best_by_name is a function from keys (lowercased texts) to Concepts.    *)
(* A chunk result is a list parse_concepts_response returned for one chunk.*)

MaxChunks == 2

ChunkTexts == { <<97>>, <<65>>, <<98>> }   \* "a", "A", "b"

ChunkConcepts ==
    { [concept |-> t, importance |-> i] : t \in ChunkTexts, i \in { DefaultImportance, 10 } }

ChunkLists == UNION { [1..n -> ChunkConcepts] : n \in 0..MaxEntries }

RECURSIVE Flatten(_)
Flatten(lists) ==
    IF lists = <<>> THEN <<>> ELSE lists[1] \o Flatten(Tail(lists))

ConceptKey(concept) == ToLowercase(concept.concept)

\* KeepBetter with a fault: the later concept always replaces the stored one
KeepLatest(stored, concept) == concept

\* Entry::Occupied
KeepBetter(stored, concept) ==
    IF concept.importance > stored.importance THEN concept ELSE stored

InsertConcept(map, concept) ==
    LET key == ConceptKey(concept)
    IN  [k \in DOMAIN map \cup {key} |->
            IF k # key THEN map[k]
            ELSE IF key \in DOMAIN map THEN KeepBetter(map[key], concept)
            ELSE concept]

RECURSIVE MergeFold(_, _)
MergeFold(map, seq) ==
    IF seq = <<>> THEN map ELSE MergeFold(InsertConcept(map, seq[1]), Tail(seq))

BestByName(lists) == MergeFold(<<>>, Flatten(lists))

\* best_by_name.into_values().collect(): the values in any iteration order
IntoValues(map) ==
    { [k \in 1..Cardinality(DOMAIN map) |-> map[o[k]]] : o \in Orders(DOMAIN map) }

MergeChunkConcepts ==
    /\ pc = "call"
    /\ op = "merge"
    /\ best_by_name' = BestByName(chunk_results)
    /\ merged' \in IntoValues(BestByName(chunk_results))
    /\ pc' = "done"
    /\ UNCHANGED <<chunk_results, mergeFrame>>

InitMerge ==
    /\ pc = "call"
    /\ op = "merge"
    /\ chunk_results \in UNION { [1..n -> ChunkLists] : n \in 0..MaxChunks }
    /\ best_by_name = <<>>
    /\ merged = <<>>
    /\ ParseIdle
    /\ BatchIdle
    /\ RequestIdle
    /\ RestIdle
    /\ TextIdle
    /\ MapIdle

NextMerge == MergeChunkConcepts

SpecMerge == InitMerge /\ [][NextMerge]_vars

Reported == Range(Flatten(chunk_results))

ReportedKeys == { ConceptKey(c) : c \in Reported }

EntrySet(seq) == { seq[k] : k \in 1..Len(seq) }

PermuteSeq(seq) ==
    { [k \in 1..Len(seq) |-> seq[o[k]]] : o \in Orders(1..Len(seq)) }

\* the chunk results in another order, each with its concepts in another order
Reorderings(lists) ==
    UNION { { r \in [1..Len(outer) -> ChunkLists] :
                \A k \in 1..Len(outer) : r[k] \in PermuteSeq(outer[k]) } :
            outer \in PermuteSeq(lists) }

\* C12: merge_chunk_concepts returns exactly one entry per distinct lowercased
\* concept text of the chunk results; the entry is one of the reported concepts
\* and its importance is the maximum reported for that lowercased text.
MergeOnePerKeyWithMax ==
    (op = "merge" /\ pc = "done") =>
        /\ Len(merged) = Cardinality(ReportedKeys)
        /\ { ConceptKey(merged[k]) : k \in 1..Len(merged) } = ReportedKeys
        /\ \A k \in 1..Len(merged) :
              /\ merged[k] \in Reported
              /\ merged[k].importance =
                    SetMax({ c.importance : c \in { r \in Reported :
                                ConceptKey(r) = ConceptKey(merged[k]) } })

\* C12 witness: two chunks report the same lowercased text, the second with the
\* lower importance, and the single entry returned carries the higher one.
MergeMaxWitness ==
    /\ op = "merge"
    /\ pc = "done"
    /\ Len(chunk_results) = 2
    /\ Len(chunk_results[1]) = 1
    /\ Len(chunk_results[2]) = 1
    /\ ConceptKey(chunk_results[1][1]) = ConceptKey(chunk_results[2][1])
    /\ chunk_results[1][1].importance > chunk_results[2][1].importance
    /\ Len(merged) = 1
    /\ merged[1].importance = chunk_results[1][1].importance

\* C13 (as claimed): for every reordering of the chunk results and of the
\* concepts inside them, merge_chunk_concepts returns the same set of
\* (concept text, importance) entries.
MergeOrderIndependent ==
    (op = "merge" /\ pc = "done") =>
        \A r \in Reorderings(chunk_results) :
            \A out \in IntoValues(BestByName(r)) : EntrySet(out) = EntrySet(merged)

----------------------------------------------------------------------------
(* EmbeddingModel::get_batch_embeddings (models/embeddings/model.rs).       *)
(*                                                                         *)
(* join_all polls every future when it is first polled, so every request   *)
(* is in flight before any of them completes; the futures then complete in *)
(* any order and join_all returns their outputs in the order of the        *)
(* futures.  The embedding the external model returns for a prompt is kept *)
(* as the record [of |-> prompt]; a failed request is the record           *)
(* [of |-> prompt, failed |-> TRUE].                                       *)

MaxBatch == 3

BatchTexts == { <<32>>, <<97>>, <<32, 98>> }   \* " ", "a", " b"

RECURSIVE ValidTexts(_)
ValidTexts(ts) ==
    IF ts = <<>> THEN <<>>
    ELSE IF Trim(ts[1]) # <<>> THEN <<Trim(ts[1])>> \o ValidTexts(Tail(ts))
    ELSE ValidTexts(Tail(ts))

EmbeddingOf(prompt) == [of |-> prompt, failed |-> FALSE]

FailureOf(prompt) == [of |-> prompt, failed |-> TRUE]

\* JoinAll with a fault: the outputs are returned in completion order
JoinAllUnordered(outs, order) == [k \in 1..Len(order) |-> outs[order[k]]]

\* join_all(futures).await
JoinAll(outs, order) == [k \in 1..Len(order) |-> outs[k]]

\* results.into_iter().collect::<Result<Vec<_>, _>>()
CollectFails(outs) == \E k \in 1..Len(outs) : outs[k].failed

BatchStart ==
    /\ pc = "call"
    /\ op = "embed"
    /\ valid_texts' = ValidTexts(texts)
    /\ in_flight' = 1..Len(ValidTexts(texts))
    /\ completed' = <<>>
    /\ outputs' = [k \in 1..Len(ValidTexts(texts)) |-> FailureOf(<<>>)]
    /\ pc' = "join"
    /\ UNCHANGED <<texts, batch_result, batchFrame>>

RequestCompletes ==
    /\ pc = "join"
    /\ op = "embed"
    /\ \E k \in in_flight :
          /\ in_flight' = in_flight \ {k}
          /\ completed' = Append(completed, k)
          /\ \E out \in { EmbeddingOf(valid_texts[k]), FailureOf(valid_texts[k]) } :
                outputs' = [outputs EXCEPT ![k] = out]
    /\ pc' = "join"
    /\ UNCHANGED <<texts, valid_texts, batch_result, batchFrame>>

BatchReturn ==
    /\ pc = "join"
    /\ op = "embed"
    /\ in_flight = {}
    /\ ~CollectFails(JoinAll(outputs, completed))
    /\ batch_result' = JoinAll(outputs, completed)
    /\ pc' = "done"
    /\ UNCHANGED <<texts, valid_texts, in_flight, completed, outputs, batchFrame>>

BatchFail ==
    /\ pc = "join"
    /\ op = "embed"
    /\ in_flight = {}
    /\ CollectFails(JoinAll(outputs, completed))
    /\ pc' = "error"
    /\ UNCHANGED <<batchVars, batchFrame>>

InitBatch ==
    /\ pc = "call"
    /\ op = "embed"
    /\ texts \in UNION { [1..n -> BatchTexts] : n \in 0..MaxBatch }
    /\ valid_texts = <<>>
    /\ in_flight = {}
    /\ completed = <<>>
    /\ outputs = <<>>
    /\ batch_result = <<>>
    /\ ParseIdle
    /\ MergeIdle
    /\ RequestIdle
    /\ RestIdle
    /\ TextIdle
    /\ MapIdle

NextBatch ==
    \/ BatchStart
    \/ RequestCompletes
    \/ BatchReturn
    \/ BatchFail

SpecBatch == InitBatch /\ [][NextBatch]_vars

\* C16: every request of get_batch_embeddings is in flight before any of them
\* completes, and when all succeed result k is the embedding of the k-th trimmed
\* non-empty input text, whatever order the requests completed in.
BatchOrderPreserved ==
    /\ (op = "embed" /\ pc = "join" /\ completed = <<>>) =>
          in_flight = 1..Len(ValidTexts(texts))
    /\ (op = "embed" /\ pc = "done") =>
          /\ Len(batch_result) = Len(ValidTexts(texts))
          /\ \A k \in 1..Len(batch_result) :
                batch_result[k] = EmbeddingOf(ValidTexts(texts)[k])

\* C16 witness: two requests for different texts completed in the opposite order
\* of their texts, an empty text was dropped, and the batch returned.
BatchOrderWitness ==
    /\ op = "embed"
    /\ pc = "done"
    /\ Len(valid_texts) < Len(texts)
    /\ Len(completed) >= 2
    /\ completed[1] > completed[2]
    /\ batch_result[completed[1]] # batch_result[completed[2]]

----------------------------------------------------------------------------
(* process_text (controllers/text_processing.rs).                          *)
(*                                                                         *)
(* pc is the position of the handler: "join" and "embed" are its two await *)
(* points, every step between the return of get_batch_embeddings and the   *)
(* response is synchronous.  The server runs each worker on a              *)
(* single-threaded runtime (#[actix_web::main]), so a task spawned with    *)
(* tokio::spawn runs only while the handler is suspended or has returned.  *)
(* What process_concepts returns for its arguments is kept as the record   *)
(* [clustered |-> arguments].                                              *)

MaxNew == 2

MaxPrior == 1

NewTexts == { <<97>>, <<98>>, <<>> }   \* "a", "b", "" (a name made of punctuation)

ConceptOf(t) == [concept |-> t, importance |-> DefaultImportance]

NewConceptLists ==
    UNION { [1..n -> { ConceptOf(t) : t \in NewTexts }] : n \in 0..MaxNew }

PriorRows ==
    UNION { [1..n -> { <<ConceptOf(<<99>>), EmbeddingOf(<<99>>)>> }] : n \in 0..MaxPrior }

Completed(value) == [state |-> "ok", value |-> value]

Failed == [state |-> "err", value |-> <<>>]

NoResponse == [status |-> "none", data |-> <<>>]

ErrorResponse(kind) == [status |-> kind, data |-> <<>>]

OkResponse(data) == [status |-> "ok", data |-> data]

Clustered(arguments) == [clustered |-> arguments]

ConceptStrings(cs) == [k \in 1..Len(cs) |-> cs[k].concept]

AllConcepts == new_concepts \o [k \in 1..Len(user_concepts) |-> user_concepts[k][1]]

\* all_embeddings with a fault: the prior embeddings are put first
AllEmbeddingsPriorFirst ==
    [k \in 1..Len(user_concepts) |-> user_concepts[k][2]] \o new_embeddings

AllEmbeddings == new_embeddings \o [k \in 1..Len(user_concepts) |-> user_concepts[k][2]]

\* NoConcepts with a fault: the empty list is not rejected
NoConceptsNever(cs) == FALSE

\* new_concepts.is_empty()
NoConcepts(cs) == cs = <<>>

\* WorkerFree with a fault: a spawned task runs on another thread at any time
WorkerAlwaysFree == TRUE

\* the worker thread can run a spawned task
WorkerFree == pc \in { "join", "embed", "done", "error" }

\* AfterPersistFailure with a fault: the failure replaces the response
PersistFailureFatal(resp) == ErrorResponse("InternalError")

\* `if let Err(e) = .. { error!(..) }`: the failure is logged
AfterPersistFailure(resp) == resp

AfterPersist(resp, ok) == IF ok THEN resp ELSE AfterPersistFailure(resp)

RequestStart ==
    /\ pc = "call"
    /\ op = "process_text"
    /\ pc' = "join"
    /\ UNCHANGED <<requestVars, requestFrame>>

ConceptsFutureCompletes ==
    /\ pc = "join"
    /\ op = "process_text"
    /\ concepts_future = Pending
    /\ \E cs \in NewConceptLists : concepts_future' = Completed(cs)
    /\ pc' = "join"
    /\ UNCHANGED <<user_id, is_uploaded_text, db_future, new_concepts, user_concepts,
                   new_embeddings, embedder_calls, merger_calls, save_task,
                   reference_task, http_response, requestFrame>>

ConceptsFutureFails ==
    /\ pc = "join"
    /\ op = "process_text"
    /\ concepts_future = Pending
    /\ concepts_future' = Failed
    /\ http_response' = ErrorResponse("RequestError")
    /\ pc' = "error"
    /\ UNCHANGED <<user_id, is_uploaded_text, db_future, new_concepts, user_concepts,
                   new_embeddings, embedder_calls, merger_calls, save_task,
                   reference_task, requestFrame>>

DbFutureCompletes ==
    /\ pc = "join"
    /\ op = "process_text"
    /\ db_future = Pending
    /\ \E prior \in PriorRows :
          /\ ~user_id => prior = <<>>
          /\ db_future' = Completed(prior)
    /\ pc' = "join"
    /\ UNCHANGED <<user_id, is_uploaded_text, concepts_future, new_concepts, user_concepts,
                   new_embeddings, embedder_calls, merger_calls, save_task,
                   reference_task, http_response, requestFrame>>

DbFutureFails ==
    /\ pc = "join"
    /\ op = "process_text"
    /\ db_future = Pending
    /\ user_id
    /\ db_future' = Failed
    /\ http_response' = ErrorResponse("InternalError")
    /\ pc' = "error"
    /\ UNCHANGED <<user_id, is_uploaded_text, concepts_future, new_concepts, user_concepts,
                   new_embeddings, embedder_calls, merger_calls, save_task,
                   reference_task, requestFrame>>

\* try_join! with a fault: it returns the outputs as soon as one future is ready
JoinReadyEither == concepts_future.state = "ok" \/ db_future.state = "ok"

\* tokio::try_join!(concepts_future, db_future) has both outputs
JoinReady == concepts_future.state = "ok" /\ db_future.state = "ok"

TryJoinReturns ==
    /\ pc = "join"
    /\ op = "process_text"
    /\ JoinReady
    /\ new_concepts' = concepts_future.value
    /\ user_concepts' = db_future.value
    /\ IF NoConcepts(concepts_future.value)
       THEN /\ http_response' = ErrorResponse("NoConceptsExtracted")
            /\ pc' = "error"
            /\ UNCHANGED embedder_calls
       ELSE /\ embedder_calls' =
                  Append(embedder_calls, ConceptStrings(concepts_future.value))
            /\ pc' = "embed"
            /\ UNCHANGED http_response
    /\ UNCHANGED <<user_id, is_uploaded_text, concepts_future, db_future, new_embeddings,
                   merger_calls, save_task, reference_task, requestFrame>>

EmbedderFails ==
    /\ pc = "embed"
    /\ op = "process_text"
    /\ http_response' = ErrorResponse("RequestError")
    /\ pc' = "error"
    /\ UNCHANGED <<user_id, is_uploaded_text, concepts_future, db_future, new_concepts,
                   user_concepts, new_embeddings, embedder_calls, merger_calls,
                   save_task, reference_task, requestFrame>>

EmbedderReturns ==
    /\ pc = "embed"
    /\ op = "process_text"
    /\ LET embs == [k \in 1..Len(ValidTexts(ConceptStrings(new_concepts))) |->
                        EmbeddingOf(ValidTexts(ConceptStrings(new_concepts))[k])]
       IN  /\ new_embeddings' = embs
           /\ IF Len(embs) # Len(new_concepts)
              THEN /\ http_response' = ErrorResponse("EmbeddingGenerationError")
                   /\ pc' = "error"
              ELSE /\ pc' = "spawn_save"
                   /\ UNCHANGED http_response
    /\ UNCHANGED <<user_id, is_uploaded_text, concepts_future, db_future, new_concepts,
                   user_concepts, embedder_calls, merger_calls, save_task,
                   reference_task, requestFrame>>

SpawnSaveTask ==
    /\ pc = "spawn_save"
    /\ op = "process_text"
    /\ save_task' = IF user_id THEN [pc |-> "spawned", log |-> <<>>] ELSE save_task
    /\ pc' = "process"
    /\ UNCHANGED <<user_id, is_uploaded_text, concepts_future, db_future, new_concepts,
                   user_concepts, new_embeddings, embedder_calls, merger_calls,
                   reference_task, http_response, requestFrame>>

ProcessConcepts ==
    /\ pc = "process"
    /\ op = "process_text"
    /\ merger_calls' = Append(merger_calls, <<AllConcepts, AllEmbeddings>>)
    /\ \/ /\ pc' = "spawn_reference"
          /\ UNCHANGED http_response
       \/ /\ http_response' = ErrorResponse("DimensionalityError")
          /\ pc' = "error"
    /\ UNCHANGED <<user_id, is_uploaded_text, concepts_future, db_future, new_concepts,
                   user_concepts, new_embeddings, embedder_calls, save_task,
                   reference_task, requestFrame>>

SpawnReferenceTask ==
    /\ pc = "spawn_reference"
    /\ op = "process_text"
    /\ reference_task' = [pc |-> "spawned", log |-> <<>>]
    /\ http_response' = OkResponse(Clustered(merger_calls[Len(merger_calls)]))
    /\ pc' = "done"
    /\ UNCHANGED <<user_id, is_uploaded_text, concepts_future, db_future, new_concepts,
                   user_concepts, new_embeddings, embedder_calls, merger_calls,
                   save_task, requestFrame>>

\* one iteration of the loop of the first spawned task
SaveConcept ==
    /\ op = "process_text"
    /\ WorkerFree
    /\ save_task.pc = "spawned"
    /\ Len(save_task.log) < Len(new_concepts)
    /\ \E ok \in BOOLEAN :
          /\ save_task' =
                [pc  |-> IF Len(save_task.log) + 1 = Len(new_concepts)
                         THEN "finished" ELSE "spawned",
                 log |-> Append(save_task.log, ok)]
          /\ http_response' = AfterPersist(http_response, ok)
    /\ UNCHANGED <<pc, user_id, is_uploaded_text, concepts_future, db_future, new_concepts,
                   user_concepts, new_embeddings, embedder_calls, merger_calls,
                   reference_task, requestFrame>>

SaveTextReference ==
    /\ op = "process_text"
    /\ WorkerFree
    /\ reference_task.pc = "spawned"
    /\ \E ok \in BOOLEAN :
          /\ reference_task' =
                [pc  |-> IF is_uploaded_text THEN "upload" ELSE "finished",
                 log |-> IF user_id THEN <<ok>> ELSE <<FALSE>>]
          /\ http_response' = AfterPersist(http_response, ~user_id \/ ok)
    /\ UNCHANGED <<pc, user_id, is_uploaded_text, concepts_future, db_future, new_concepts,
                   user_concepts, new_embeddings, embedder_calls, merger_calls,
                   save_task, requestFrame>>

UploadText ==
    /\ op = "process_text"
    /\ WorkerFree
    /\ reference_task.pc = "upload"
    /\ \E ok \in BOOLEAN :
          /\ reference_task' =
                [pc  |-> IF ok /\ reference_task.log[1] THEN "update" ELSE "finished",
                 log |-> Append(reference_task.log, ok)]
          /\ http_response' = AfterPersist(http_response, ok)
    /\ UNCHANGED <<pc, user_id, is_uploaded_text, concepts_future, db_future, new_concepts,
                   user_concepts, new_embeddings, embedder_calls, merger_calls,
                   save_task, requestFrame>>

UpdateTextUrl ==
    /\ op = "process_text"
    /\ WorkerFree
    /\ reference_task.pc = "update"
    /\ \E ok \in BOOLEAN :
          /\ reference_task' =
                [pc |-> "finished", log |-> Append(reference_task.log, ok)]
          /\ http_response' = AfterPersist(http_response, ok)
    /\ UNCHANGED <<pc, user_id, is_uploaded_text, concepts_future, db_future, new_concepts,
                   user_concepts, new_embeddings, embedder_calls, merger_calls,
                   save_task, requestFrame>>

InitRequest ==
    /\ pc = "call"
    /\ op = "process_text"
    /\ user_id \in BOOLEAN
    /\ is_uploaded_text \in BOOLEAN
    /\ concepts_future = Pending
    /\ db_future = Pending
    /\ new_concepts = <<>>
    /\ user_concepts = <<>>
    /\ new_embeddings = <<>>
    /\ embedder_calls = <<>>
    /\ merger_calls = <<>>
    /\ save_task = NotSpawned
    /\ reference_task = NotSpawned
    /\ http_response = NoResponse
    /\ ParseIdle
    /\ MergeIdle
    /\ BatchIdle
    /\ RestIdle
    /\ TextIdle
    /\ MapIdle

NextRequest ==
    \/ RequestStart
    \/ ConceptsFutureCompletes
    \/ ConceptsFutureFails
    \/ DbFutureCompletes
    \/ DbFutureFails
    \/ TryJoinReturns
    \/ EmbedderFails
    \/ EmbedderReturns
    \/ SpawnSaveTask
    \/ ProcessConcepts
    \/ SpawnReferenceTask
    \/ SaveConcept
    \/ SaveTextReference
    \/ UploadText
    \/ UpdateTextUrl

SpecRequest == InitRequest /\ [][NextRequest]_vars

GeneratedNothing ==
    op = "process_text" /\ concepts_future = Completed(<<>>)

NothingStarted ==
    /\ embedder_calls = <<>>
    /\ merger_calls = <<>>
    /\ save_task = NotSpawned
    /\ reference_task = NotSpawned

\* C17 (as claimed): when concept generation returned an empty list, the request
\* fails with NoConceptsExtracted, the embedder is never called, no persistence
\* task is spawned and the merger is not run.
EmptyConceptsGiveNoConceptsExtracted ==
    GeneratedNothing =>
        /\ NothingStarted
        /\ pc \in { "join", "error" }
        /\ pc = "error" => http_response = ErrorResponse("NoConceptsExtracted")

\* C17 (amended): when concept generation returned an empty list the request
\* fails, with NoConceptsExtracted if the prior-concept lookup succeeded and with
\* the lookup's error if it failed; in both cases the embedder is never called,
\* no persistence task is spawned and the merger is not run.
EmptyConceptsStopRequest ==
    GeneratedNothing =>
        /\ NothingStarted
        /\ pc \in { "join", "error" }
        /\ pc = "error" =>
              http_response = IF db_future = Failed
                              THEN ErrorResponse("InternalError")
                              ELSE ErrorResponse("NoConceptsExtracted")

\* C17 witness: generation returned an empty list, the lookup returned a prior
\* concept, and the request failed with NoConceptsExtracted.
EmptyConceptsWitness ==
    /\ GeneratedNothing
    /\ db_future.state = "ok"
    /\ db_future.value # <<>>
    /\ pc = "error"
    /\ http_response = ErrorResponse("NoConceptsExtracted")

PersistenceFailures ==
    { k \in 1..Len(save_task.log) : ~save_task.log[k] }

\* C18: whatever the background persistence steps did (each save_concept, the
\* save of the text reference, the CDN upload, the update of the stored URL),
\* a request that returned Ok carries the ConceptGroup list process_concepts
\* returned for the request's concepts and embeddings, and a request that
\* failed keeps its error.
PersistenceNeverAffectsResponse ==
    /\ (op = "process_text" /\ pc = "done") =>
          http_response = OkResponse(Clustered(<<AllConcepts, AllEmbeddings>>))
    /\ (op = "process_text" /\ pc = "error") =>
          http_response.status \in
              { "RequestError", "InternalError", "NoConceptsExtracted",
                "EmbeddingGenerationError", "DimensionalityError" }
    /\ (op = "process_text" /\ pc = "error" /\ merger_calls # <<>>) =>
          http_response = ErrorResponse("DimensionalityError")

\* C18 witness: a save_concept, the save of the text reference and the CDN upload
\* have failed after the request returned its ConceptGroup list.
PersistenceFailedWitness ==
    /\ op = "process_text"
    /\ pc = "done"
    /\ http_response.status = "ok"
    /\ PersistenceFailures # {}
    /\ reference_task.pc = "finished"
    /\ Len(reference_task.log) = 2
    /\ ~reference_task.log[1]
    /\ ~reference_task.log[2]
    /\ user_id

\* C19: no save_concept write is started before process_concepts has been
\* entered with the request's concepts and embeddings.
SaveAfterMerger ==
    (op = "process_text" /\ save_task.log # <<>>) =>
        merger_calls = << <<AllConcepts, AllEmbeddings>> >>

\* C19 witness: process_concepts returned an error after the save task had been
\* spawned, and a save_concept write has been started.
SaveAfterMergerWitness ==
    /\ op = "process_text"
    /\ pc = "error"
    /\ http_response = ErrorResponse("DimensionalityError")
    /\ save_task.log # <<>>

----------------------------------------------------------------------------
(* process_concepts on embeddings of differing dimensions.                 *)

MixedDimensions ==
    /\ op = "process_concepts"
    /\ \E i, j \in 1..Len(embeddings) : Len(embeddings[i]) # Len(embeddings[j])

\* C20 (as claimed): when the embeddings handed to process_concepts do not all
\* have the same dimension, the call ends in an Err result: it neither returns
\* a ConceptGroup list nor panics.
MixedDimensionsEndInErr ==
    MixedDimensions => pc \notin { "done", "panic" }

----------------------------------------------------------------------------
(* DatabaseClient::get_user_concepts (data/client.rs): the row loop.        *)
(*                                                                         *)
(* A row is a record of what reading each of its columns gives:            *)
(* concept_text is a name or Unreadable, concept_id is readable or not,     *)
(* embedding_vector is Unreadable (get_r_by_name::<String> is an Err) or    *)
(* the comma-separated tokens of the string.  A token is the f32 it parses  *)
(* to, or NotANumber.  Reading the same column of the same row twice gives  *)
(* the same outcome.                                                       *)

MaxRows == 3

Unreadable == [ok |-> FALSE, tokens |-> <<>>]

NotANumber == [ok |-> FALSE, value |-> 0]

Number(v) == [ok |-> TRUE, value |-> v]

ColumnOf(tokens) == [ok |-> TRUE, tokens |-> tokens]

\* "x", "1", "1,x": str::split(',') yields at least one token
EmbeddingColumns ==
    { Unreadable, ColumnOf(<<NotANumber>>), ColumnOf(<<Number(1)>>),
      ColumnOf(<<Number(1), NotANumber>>) }

\* row k of the answer carries the text <<96 + k>>.  The loop reads the
\* embedding only when the text is readable, and concept_id only when the
\* embedding is unreadable; the columns it does not read are given one value.
RowsAt(k) ==
    [ text_ok : { FALSE }, concept_text : { <<96 + k>> },
      embedding_vector : { Unreadable }, id_ok : { TRUE } ]
    \cup [ text_ok : { TRUE }, concept_text : { <<96 + k>> },
           embedding_vector : { Unreadable }, id_ok : BOOLEAN ]
    \cup [ text_ok : { TRUE }, concept_text : { <<96 + k>> },
           embedding_vector : EmbeddingColumns \ { Unreadable }, id_ok : { TRUE } ]

RECURSIVE RowListsOf(_)
RowListsOf(k) ==
    IF k = 0 THEN { <<>> }
    ELSE { Append(seq, row) : seq \in RowListsOf(k - 1), row \in RowsAt(k) }

RowLists == UNION { RowListsOf(k) : k \in 0..MaxRows }

\* string_vec.split(',').filter_map(|s| s.trim().parse::<f32>().ok()).collect()
RECURSIVE ParsedVec(_)
ParsedVec(tokens) ==
    IF tokens = <<>> THEN <<>>
    ELSE (IF Head(tokens).ok THEN <<Head(tokens).value>> ELSE <<>>)
         \o ParsedVec(Tail(tokens))

OkResult(value) == [status |-> "ok", value |-> value, detail |-> ""]

ErrResult(detail) == [status |-> "err", value |-> <<>>, detail |-> detail]

\* what one pass of the loop body does with a row: "push", "continue" or the
\* InternalError the `?` returns
\* RowOutcome with a fault: an embedding string that parses to no value fails
\* the call instead of skipping the row
RowOutcomeFatal(row) ==
    IF ~row.text_ok THEN "Concept text extraction error"
    ELSE IF row.embedding_vector.ok
         THEN (IF ParsedVec(row.embedding_vector.tokens) = <<>>
               THEN "Embedding parsing error" ELSE "push")
    ELSE IF ~row.id_ok THEN "Concept ID extraction error"
    ELSE "continue"

RowOutcome(row) ==
    IF ~row.text_ok THEN "Concept text extraction error"
    ELSE IF row.embedding_vector.ok
         THEN (IF ParsedVec(row.embedding_vector.tokens) = <<>>
               THEN "continue" ELSE "push")
    ELSE IF ~row.id_ok THEN "Concept ID extraction error"
    ELSE "continue"

\* the query: Uuid::parse_str, query_with_values, response_body, into_rows
QueryFails ==
    /\ op = "get_user_concepts" /\ pc = "call"
    /\ pc' = "error"
    /\ lookup_result' = ErrResult("Query error")
    /\ UNCHANGED <<op, rows, row_index, results, rowFrame>>

QueryReturns ==
    /\ op = "get_user_concepts" /\ pc = "call"
    /\ pc' = "loop"
    /\ UNCHANGED <<op, rowVars, rowFrame>>

\* one pass of `for (row_index, row) in rows.iter().enumerate()`
ReadRow ==
    /\ op = "get_user_concepts" /\ pc = "loop" /\ row_index < Len(rows)
    /\ LET row == rows[row_index + 1]
           outcome == RowOutcome(row)
       IN  IF outcome = "push"
           THEN /\ results' = Append(results,
                       <<row.concept_text, ParsedVec(row.embedding_vector.tokens)>>)
                /\ row_index' = row_index + 1
                /\ UNCHANGED <<pc, lookup_result>>
           ELSE IF outcome = "continue"
           THEN /\ row_index' = row_index + 1
                /\ UNCHANGED <<pc, results, lookup_result>>
           ELSE /\ pc' = "error"
                /\ lookup_result' = ErrResult(outcome)
                /\ UNCHANGED <<row_index, results>>
    /\ UNCHANGED <<op, rows, rowFrame>>

\* Ok(results)
LookupReturns ==
    /\ op = "get_user_concepts" /\ pc = "loop" /\ row_index = Len(rows)
    /\ pc' = "done"
    /\ lookup_result' = OkResult(results)
    /\ UNCHANGED <<op, rows, row_index, results, rowFrame>>

InitRows ==
    /\ pc = "call"
    /\ op = "get_user_concepts"
    /\ rows \in RowLists
    /\ row_index = 0 /\ results = <<>> /\ lookup_result = NoResult
    /\ FirstIdle /\ NlpIdle /\ ErrorIdle /\ GenerateIdle /\ LayoutIdle /\ BoundaryIdle

NextRows == QueryFails \/ QueryReturns \/ ReadRow \/ LookupReturns

SpecRows == InitRows /\ [][NextRows]_vars

CorruptEmbedding(row) ==
    \/ ~row.embedding_vector.ok
    \/ ParsedVec(row.embedding_vector.tokens) = <<>>

\* the rows whose embedding is not corrupt, in the order of the answer
RECURSIVE SoundRows(_)
SoundRows(rs) ==
    IF rs = <<>> THEN <<>>
    ELSE (IF CorruptEmbedding(Head(rs)) THEN <<>>
          ELSE << <<Head(rs).concept_text, ParsedVec(Head(rs).embedding_vector.tokens)>> >>)
         \o SoundRows(Tail(rs))

\* the query answered with rows and the call is over
RowsAnswered ==
    /\ op = "get_user_concepts"
    /\ \/ pc = "done"
       \/ pc = "error" /\ lookup_result # ErrResult("Query error")

\* the columns save_concept always writes, concept_text and the key column
\* concept_id, can be read in every row: what may be corrupt is the embedding
KeyColumnsReadable == \A i \in 1..Len(rows) : rows[i].text_ok /\ rows[i].id_ok

\* C21: when the rows the store returned include rows with a corrupt embedding
\* (unreadable, or a string that parses to zero values), get_user_concepts
\* does not fail and returns exactly the other rows, in the order of the
\* answer; no pair it collects ever has a zero-length embedding.
CorruptRowsSkipped ==
    /\ (RowsAnswered /\ KeyColumnsReadable)
           => lookup_result = OkResult(SoundRows(rows))
    /\ \A k \in 1..Len(results) : Len(results[k][2]) > 0

\* three rows were returned, the middle one with a corrupt embedding, and the
\* call returned the two others
CorruptRowsSkippedWitness ==
    /\ op = "get_user_concepts" /\ pc = "done" /\ KeyColumnsReadable
    /\ Len(rows) = 3 /\ CorruptEmbedding(rows[2])
    /\ lookup_result.status = "ok" /\ Len(lookup_result.value) = 2

----------------------------------------------------------------------------
(* KeywordExtractor::extract_candidates (models/concepts/nlp.rs).          *)
(*                                                                         *)
(* A phrase is a sequence of code points, words separated by Space.  A     *)
(* score is kept in fortieths (One is 1.0), so that x / max, x * 0.5,      *)
(* x * 0.8 and x + 0.1 are exact for the raw scores 1 and 2.  What the     *)
(* RAKE and TF-IDF libraries return for the text is an input: lists of     *)
(* <<phrase, raw score>> with raw scores >= 0, and the bigrams with their  *)
(* normalized score in (0, 1].                                             *)

MaxCandidates == 2

One == 40

MinTextLen == 50

MaxPhraseWords == 3

MinPhraseBytes == 2

\* "ab", "abs", "b" and the one-character word U+00E9
WordAb == <<97, 98>>

WordAbs == <<97, 98, 115>>

WordB == <<98>>

WordEAcute == <<233>>

RakePhraseInputs ==
    { <<>>,
      << <<WordAbs, 2>> >>,
      << <<WordAb \o <<Space>> \o WordB, 2>>, <<WordAbs, 1>> >>,
      << <<WordAb \o <<Space>> \o WordB \o <<Space>> \o WordB \o <<Space>> \o WordB, 1>> >> }

RakeKeywordInputs ==
    { <<>> } \cup { << <<w, x>> >> : w \in { WordAb, WordB, WordEAcute }, x \in 1..2 }

TfIdfEntries == { <<w, x>> : w \in { WordAb, WordAbs, WordEAcute }, x \in 1..2 }

\* get_ranked_word_scores: different words, by descending score
TfIdfInputs ==
    { <<>> } \cup { <<e>> : e \in TfIdfEntries }
             \cup { <<e, f>> \in TfIdfEntries \X TfIdfEntries : e[1] # f[1] /\ e[2] >= f[2] }

BigramInputs ==
    { <<>>,
      << <<WordAb \o <<Space>> \o WordB, One \div 2>> >>,
      << <<WordAbs \o <<Space>> \o WordB, One>> >> }

\* String::len(): the number of bytes of the UTF-8 encoding
Utf8Len(c) == IF c < 128 THEN 1 ELSE IF c < 2048 THEN 2 ELSE IF c < 65536 THEN 3 ELSE 4

RECURSIVE ByteLen(_)
ByteLen(phrase) ==
    IF phrase = <<>> THEN 0 ELSE Utf8Len(Head(phrase)) + ByteLen(Tail(phrase))

IsVowel(c) == c \in { 97, 101, 105, 111, 117, 121 }

\* Stemmer::stem (Snowball English) on the words of the inputs: a word of at
\* most two letters is left alone; a final s is removed when a vowel stands
\* before the letter that precedes it and that letter is not s or u
Stem(w) ==
    IF /\ Len(w) >= 3
       /\ w[Len(w)] = 115
       /\ w[Len(w) - 1] \notin { 115, 117 }
       /\ \E i \in 1..(Len(w) - 2) : IsVowel(w[i])
    THEN SubSeq(w, 1, Len(w) - 1)
    ELSE w

StemPhrase(phrase) ==
    LET words == SplitWhitespace(phrase)
    IN  JoinSpace([i \in 1..Len(words) |-> Stem(words[i])])

RECURSIVE MaxScore(_)
MaxScore(list) ==
    IF list = <<>> THEN 0
    ELSE LET m == MaxScore(Tail(list))
         IN  IF Head(list)[2] > m THEN Head(list)[2] ELSE m

\* score / max
Normalized(score, max) == (score * One) \div max

\* .entry(key).and_modify(|s| *s = s.max(normalized)).or_insert(normalized)
InsertMax(map, key, normalized) ==
    [k \in DOMAIN map \cup {key} |->
        IF k # key THEN map[k]
        ELSE IF key \in DOMAIN map
             THEN (IF map[key] >= normalized THEN map[key] ELSE normalized)
        ELSE normalized]

\* .entry(key).and_modify(|s| *s = (*s + normalized * 0.5).min(1.0))
\*            .or_insert(normalized * 0.8)
InsertBoost(map, key, normalized) ==
    [k \in DOMAIN map \cup {key} |->
        IF k # key THEN map[k]
        ELSE IF key \in DOMAIN map THEN Min(map[key] + normalized \div 2, One)
        ELSE (normalized * 4) \div 5]

RECURSIVE ScoreRake(_, _, _)
ScoreRake(map, list, rake_max) ==
    IF list = <<>> THEN map
    ELSE ScoreRake(InsertMax(map, ToLowercase(Head(list)[1]),
                             Normalized(Head(list)[2], rake_max)),
                   Tail(list), rake_max)

RECURSIVE ScoreTfIdf(_, _, _)
ScoreTfIdf(map, list, tfidf_max) ==
    IF list = <<>> THEN map
    ELSE ScoreTfIdf(InsertBoost(map, ToLowercase(Head(list)[1]),
                                Normalized(Head(list)[2], tfidf_max)),
                    Tail(list), tfidf_max)

RECURSIVE ScoreBigrams(_, _)
ScoreBigrams(map, list) ==
    IF list = <<>> THEN map
    ELSE ScoreBigrams(InsertBoost(map, Head(list)[1], Head(list)[2]), Tail(list))

\* the HashMap `scored` at line 168
Scored(in) ==
    LET rake_max == MaxScore(in.rake_results \o in.rake_keywords)
        after_rake ==
            IF rake_max > 0
            THEN ScoreRake(ScoreRake(<<>>, in.rake_results, rake_max),
                           in.rake_keywords, rake_max)
            ELSE <<>>
        tfidf_max == MaxScore(in.tfidf_results)
    IN  IF tfidf_max > 0
        THEN ScoreBigrams(ScoreTfIdf(after_rake, in.tfidf_results, tfidf_max), in.bigrams)
        ELSE after_rake

\* word_count <= 3 && phrase.len() >= 2
KeepsPhrase(phrase) ==
    Len(SplitWhitespace(phrase)) <= MaxPhraseWords /\ ByteLen(phrase) >= MinPhraseBytes

Filtered(map) == { phrase \in DOMAIN map : KeepsPhrase(phrase) }

StemGroup(phrase, score, count) == [phrase |-> phrase, score |-> score, count |-> count]

\* the and_modify closure with a fault: the variant seen last replaces the best
ModifyGroupLatest(group, phrase, score) ==
    StemGroup(phrase, score, group.count + 1)

\* the and_modify closure of lines 185-191
ModifyGroup(group, phrase, score) ==
    IF score > group.score
    THEN StemGroup(phrase, score, group.count + 1)
    ELSE StemGroup(group.phrase, group.score, group.count + 1)

InsertGroup(groups, phrase, score) ==
    LET stem_key == StemPhrase(phrase)
    IN  [k \in DOMAIN groups \cup {stem_key} |->
            IF k # stem_key THEN groups[k]
            ELSE IF stem_key \in DOMAIN groups
                 THEN ModifyGroup(groups[stem_key], phrase, score)
            ELSE StemGroup(phrase, score, 1)]

\* for (phrase, score) in filtered, in the order `order`
RECURSIVE GroupByStem(_, _, _)
GroupByStem(groups, map, order) ==
    IF order = <<>> THEN groups
    ELSE GroupByStem(InsertGroup(groups, Head(order), map[Head(order)]), map, Tail(order))

\* the closure of lines 197-208
Boosted(group) ==
    IF group.count > 1 THEN Min(group.score + One \div 10, One) ELSE group.score

CandidateKeyword(group) == [phrase |-> group.phrase, score |-> Boosted(group)]

SortedDescending(seq) ==
    \A i \in 1..(Len(seq) - 1) : seq[i].score >= seq[i + 1].score

\* if text.len() < 50 { return Vec::new(); }
ExtractShortText ==
    /\ op = "extract_candidates" /\ pc = "call"
    /\ extraction.text_len < MinTextLen
    /\ candidates' = <<>>
    /\ pc' = "done"
    /\ UNCHANGED <<op, extraction, scored, stem_groups, nlpFrame>>

\* lines 95-167
ScoreCandidates ==
    /\ op = "extract_candidates" /\ pc = "call"
    /\ extraction.text_len >= MinTextLen
    /\ scored' = Scored(extraction)
    /\ pc' = "scored"
    /\ UNCHANGED <<op, extraction, stem_groups, candidates, nlpFrame>>

\* lines 170-193: `filtered` holds the kept entries in the order the HashMap
\* yields them
StemDeduplicate ==
    /\ op = "extract_candidates" /\ pc = "scored"
    /\ \E order \in Orders(Filtered(scored)) :
          stem_groups' = GroupByStem(<<>>, scored, order)
    /\ pc' = "grouped"
    /\ UNCHANGED <<op, extraction, scored, candidates, nlpFrame>>

\* lines 195-215: into_values in any order, the sort by descending score, truncate
CollectCandidates ==
    /\ op = "extract_candidates" /\ pc = "grouped"
    /\ \E order \in Orders(DOMAIN stem_groups) :
          LET sorted == [k \in 1..Len(order) |-> CandidateKeyword(stem_groups[order[k]])]
          IN  /\ SortedDescending(sorted)
              /\ candidates' = SubSeq(sorted, 1, Min(Len(sorted), extraction.max_candidates))
    /\ pc' = "done"
    /\ UNCHANGED <<op, extraction, scored, stem_groups, nlpFrame>>

NoKeywords ==
    [rake_results |-> <<>>, rake_keywords |-> <<>>, tfidf_results |-> <<>>, bigrams |-> <<>>]

InitExtract ==
    /\ pc = "call"
    /\ op = "extract_candidates"
    /\ \E max_candidates \in 0..MaxCandidates :
          \/ extraction = [text_len |-> MinTextLen - 1, max_candidates |-> max_candidates]
                              @@ NoKeywords
          \/ \E r \in RakePhraseInputs, k \in RakeKeywordInputs,
                t \in TfIdfInputs, b \in BigramInputs :
                extraction = [text_len |-> MinTextLen, max_candidates |-> max_candidates,
                              rake_results |-> r, rake_keywords |-> k,
                              tfidf_results |-> t, bigrams |-> b]
    /\ scored = <<>> /\ stem_groups = <<>> /\ candidates = <<>>
    /\ FirstIdle /\ RowIdle /\ ErrorIdle /\ GenerateIdle /\ LayoutIdle /\ BoundaryIdle

NextExtract == ExtractShortText \/ ScoreCandidates \/ StemDeduplicate \/ CollectCandidates

SpecExtract == InitExtract /\ [][NextExtract]_vars

ExtractReturned == op = "extract_candidates" /\ pc = "done"

\* C22 (as claimed): every candidate extract_candidates returns has a score
\* in [0, 1] and a phrase of at most 3 whitespace-separated tokens and at
\* least 2 characters.
CandidatesWellFormed ==
    ExtractReturned =>
        \A i \in 1..Len(candidates) :
            /\ candidates[i].score >= 0 /\ candidates[i].score <= One
            /\ Len(SplitWhitespace(candidates[i].phrase)) <= 3
            /\ Len(candidates[i].phrase) >= 2

\* the entries of `filtered` whose stem key is `key`
Variants(key) == { phrase \in Filtered(scored) : StemPhrase(phrase) = key }

\* C23: no two returned candidates have the same stem key; a returned
\* candidate is a variant of its stem key with the highest score among the
\* variants, and its score is that score raised by 0.1 (capped at 1.0) when
\* the stem key has more than one variant, and that score unchanged otherwise.
OneSurvivorPerStem ==
    ExtractReturned =>
        /\ \A i, j \in 1..Len(candidates) :
               i # j => StemPhrase(candidates[i].phrase) # StemPhrase(candidates[j].phrase)
        /\ \A i \in 1..Len(candidates) :
               LET c == candidates[i]
                   variants == Variants(StemPhrase(c.phrase))
                   best == SetMax({ scored[phrase] : phrase \in variants })
               IN  /\ c.phrase \in variants
                   /\ scored[c.phrase] = best
                   /\ c.score = IF Cardinality(variants) > 1
                                THEN Min(best + One \div 10, One) ELSE best

\* two candidates were returned: one that survived from two variants with
\* different scores, one that had no other variant
OneSurvivorPerStemWitness ==
    /\ ExtractReturned /\ Len(candidates) = 2
    /\ \E i, j \in 1..2 :
          /\ \E p, q \in Variants(StemPhrase(candidates[i].phrase)) : scored[p] < scored[q]
          /\ Cardinality(Variants(StemPhrase(candidates[j].phrase))) = 1

----------------------------------------------------------------------------
(* ApiError and its ResponseError implementation (error.rs).               *)
(*                                                                         *)
(* An ApiError is a record [kind, arg]: arg is the text its payload        *)
(* displays as, <<>> for the three variants without payload.               *)

UNPROCESSABLE_ENTITY == 422

NOT_FOUND == 404

INTERNAL_SERVER_ERROR == 500

UnitKinds == { "NoConceptsExtracted", "EmbeddingGenerationError", "FileDecodeError" }

PayloadKinds ==
    { "RequestError", "PayloadError", "DimensionalityError", "InternalError",
      "UrlFetchError", "ContentExtractionError", "SceneNotFound" }

ApiErrors ==
    [kind : UnitKinds, arg : { <<>> }] \cup [kind : PayloadKinds, arg : Names]

\* the #[error("...")] text of each variant
ErrorText(kind) ==
    CASE kind = "NoConceptsExtracted" -> "No concepts could be extracted from the provided text"
      [] kind = "EmbeddingGenerationError" -> "Error generating embeddings"
      [] kind = "FileDecodeError" -> "The file could not be decoded as text"
      [] kind = "RequestError" -> "Error in HTTP request: {0}"
      [] kind = "PayloadError" -> "Error reading payload: {0}"
      [] kind = "DimensionalityError" -> "Error in dimensionality reduction: {0}"
      [] kind = "InternalError" -> "Internal server error: {0}"
      [] kind = "UrlFetchError" -> "Failed to fetch URL: {0}"
      [] kind = "ContentExtractionError" -> "Failed to extract content: {0}"
      [] kind = "SceneNotFound" -> "Scene not found: {0}"

\* self.to_string(): the text with the payload in place of {0}
Display(error) == [text |-> ErrorText(error.kind), arg |-> error.arg]

\* the match of error_response with a fault: the SceneNotFound arm is missing
StatusCodeNoSceneArm(error) ==
    IF error.kind = "NoConceptsExtracted" THEN UNPROCESSABLE_ENTITY
    ELSE IF error.kind = "FileDecodeError" THEN UNPROCESSABLE_ENTITY
    ELSE IF error.kind = "UrlFetchError" THEN UNPROCESSABLE_ENTITY
    ELSE IF error.kind = "ContentExtractionError" THEN UNPROCESSABLE_ENTITY
    ELSE INTERNAL_SERVER_ERROR

\* the match of error_response, arm by arm
StatusCode(error) ==
    IF error.kind = "NoConceptsExtracted" THEN UNPROCESSABLE_ENTITY
    ELSE IF error.kind = "FileDecodeError" THEN UNPROCESSABLE_ENTITY
    ELSE IF error.kind = "UrlFetchError" THEN UNPROCESSABLE_ENTITY
    ELSE IF error.kind = "ContentExtractionError" THEN UNPROCESSABLE_ENTITY
    ELSE IF error.kind = "SceneNotFound" THEN NOT_FOUND
    ELSE INTERNAL_SERVER_ERROR

\* HttpResponse::build(status_code).json(ErrorResponse { success: false, detail })
BuildErrorResponse ==
    /\ op = "error_response" /\ pc = "call"
    /\ error_response' =
          [status |-> StatusCode(api_error),
           body |-> [success |-> FALSE, detail |-> Display(api_error)]]
    /\ pc' = "done"
    /\ UNCHANGED <<op, api_error, errorFrame>>

InitError ==
    /\ pc = "call"
    /\ op = "error_response"
    /\ api_error \in ApiErrors
    /\ error_response = <<>>
    /\ FirstIdle /\ RowIdle /\ NlpIdle /\ GenerateIdle /\ LayoutIdle /\ BoundaryIdle

NextError == BuildErrorResponse

SpecError == InitError /\ [][NextError]_vars

\* C24: the response built for an ApiError has the body {success: false,
\* detail: the error's text}; its status is 422 for NoConceptsExtracted,
\* FileDecodeError, UrlFetchError and ContentExtractionError, 404 for
\* SceneNotFound and 500 for every other kind.
ErrorStatusMapping ==
    (op = "error_response" /\ pc = "done") =>
        /\ error_response.body = [success |-> FALSE, detail |-> Display(api_error)]
        /\ api_error.kind \in { "NoConceptsExtracted", "FileDecodeError", "UrlFetchError",
                                "ContentExtractionError" } <=> error_response.status = 422
        /\ api_error.kind = "SceneNotFound" <=> error_response.status = 404
        /\ api_error.kind \in { "EmbeddingGenerationError", "RequestError", "PayloadError",
                                "DimensionalityError", "InternalError" }
               <=> error_response.status = 500

\* a SceneNotFound error was answered with 404
ErrorStatusWitness ==
    /\ op = "error_response" /\ pc = "done"
    /\ api_error.kind = "SceneNotFound" /\ error_response.status = 404
    /\ error_response.body.success = FALSE

----------------------------------------------------------------------------
(* Further properties of process_text.                                     *)

\* the request went on after try_join!: to the empty check and beyond
ProceededPastJoin ==
    \/ embedder_calls # <<>>
    \/ http_response = ErrorResponse("NoConceptsExtracted")

\* C25: concept generation and the prior-concept lookup run concurrently: while
\* both are pending either one may complete first; when one has completed and
\* the other is pending the request stays at the join and cannot go on; the
\* request is past the join only when both have completed, and it goes on with
\* the two outputs.
JoinWaitsForBoth ==
    op = "process_text" =>
        /\ ProceededPastJoin =>
              /\ concepts_future.state = "ok" /\ db_future.state = "ok"
              /\ new_concepts = concepts_future.value
              /\ user_concepts = db_future.value
        /\ (pc = "join" /\ concepts_future = Pending /\ db_future = Pending) =>
              (ENABLED ConceptsFutureCompletes) /\ (ENABLED DbFutureCompletes)
        /\ (pc = "join" /\ concepts_future.state = "ok" /\ db_future = Pending) =>
              ~(ENABLED TryJoinReturns) /\ (ENABLED DbFutureCompletes)
        /\ (pc = "join" /\ db_future.state = "ok" /\ concepts_future = Pending) =>
              ~(ENABLED TryJoinReturns) /\ (ENABLED ConceptsFutureCompletes)

\* the lookup completed first with a prior concept and waits for the generation
JoinWaitsWitness ==
    /\ op = "process_text" /\ pc = "join"
    /\ db_future.state = "ok" /\ db_future.value # <<>>
    /\ concepts_future = Pending

\* get_batch_embeddings returned Ok to process_text
EmbedderReturned ==
    /\ embedder_calls # <<>>
    /\ pc # "embed"
    /\ http_response # ErrorResponse("RequestError")

\* C26: in every call of the merger the two lists have the same length, the
\* concepts are the new concepts in generation order followed by the prior
\* concepts in store order, and entry i of the embeddings is the embedding of
\* entry i of the concepts; when the embedder returned a number of vectors
\* other than the number of new concepts, the request has failed with
\* EmbeddingGenerationError and the merger was not called.
MergerArgumentsAligned ==
    op = "process_text" =>
        /\ \A k \in 1..Len(merger_calls) :
              LET cs == merger_calls[k][1]
                  es == merger_calls[k][2]
                  prior == db_future.value
              IN  /\ Len(cs) = Len(es)
                  /\ cs = concepts_future.value \o [i \in 1..Len(prior) |-> prior[i][1]]
                  /\ \A i \in 1..Len(cs) :
                        es[i] = IF i <= Len(concepts_future.value)
                                THEN EmbeddingOf(cs[i].concept)
                                ELSE prior[i - Len(concepts_future.value)][2]
        /\ (EmbedderReturned /\ Len(new_embeddings) # Len(new_concepts)) =>
              /\ http_response = ErrorResponse("EmbeddingGenerationError")
              /\ merger_calls = <<>>

\* the merger was called with two different new concepts and one prior concept
MergerArgumentsWitness ==
    /\ op = "process_text" /\ Len(merger_calls) = 1
    /\ Len(merger_calls[1][1]) = 3
    /\ merger_calls[1][1][1] # merger_calls[1][1][2]
    /\ Len(user_concepts) = 1

----------------------------------------------------------------------------
(* ConceptsModel::generate_concepts (models/concepts/model.rs).            *)
(*                                                                         *)
(* llm_calls[k] is the future of call_llm for chunk k (for the whole text  *)
(* on the short path): pending, or completed with the concepts it parsed,  *)
(* or failed with an ApiError.  The number of chunks chunk_text cuts is    *)
(* scaled down to 1..MaxLlmCalls.                                          *)

MaxLlmCalls == 3

LongTextBytes == 6000

LlmPending == [state |-> "pending", value |-> <<>>, detail |-> ""]

LlmOk(cs) == [state |-> "ok", value |-> cs, detail |-> ""]

LlmErr(detail) == [state |-> "err", value |-> <<>>, detail |-> detail]

\* what one call_llm can complete with
LlmOutcomes ==
    { LlmOk(<<>>), LlmOk(<<ConceptOf(<<97>>)>>),
      LlmOk(<<[concept |-> <<65>>, importance |-> 10]>>),
      LlmErr("RequestError"), LlmErr("InternalError") }

RECURSIVE FirstErr(_)
FirstErr(calls) ==
    IF Head(calls).state = "err" THEN Head(calls).detail ELSE FirstErr(Tail(calls))

\* results.into_iter().collect() with a fault: the failed chunks are left out
CollectSucceeded(calls) ==
    LET ok == SelectSeq(calls, LAMBDA c : c.state = "ok")
    IN  OkResult([k \in 1..Len(ok) |-> ok[k].value])

\* results.into_iter().collect::<Result<Vec<Vec<Concept>>, ApiError>>()
CollectChunkConcepts(calls) ==
    IF \E k \in 1..Len(calls) : calls[k].state = "err"
    THEN ErrResult(FirstErr(calls))
    ELSE OkResult([k \in 1..Len(calls) |-> calls[k].value])

AllCompleted == \A k \in 1..Len(llm_calls) : llm_calls[k] # LlmPending

\* the futures are created: one for the text, or one per chunk
GenerateStart ==
    /\ op = "generate_concepts" /\ pc = "call"
    /\ pc' = "join"
    /\ UNCHANGED <<op, generateVars, generateFrame>>

\* one call_llm completes
LlmCallCompletes ==
    /\ op = "generate_concepts" /\ pc = "join"
    /\ \E k \in 1..Len(llm_calls), outcome \in LlmOutcomes :
          /\ llm_calls[k] = LlmPending
          /\ llm_calls' = [llm_calls EXCEPT ![k] = outcome]
    /\ UNCHANGED <<pc, op, text_len, generate_result, generateFrame>>

\* text.len() < 6000: self.call_llm(text, &candidate_hints).await
GenerateReturnsShort ==
    /\ op = "generate_concepts" /\ pc = "join"
    /\ text_len < LongTextBytes
    /\ AllCompleted
    /\ IF llm_calls[1].state = "ok"
       THEN generate_result' = OkResult(llm_calls[1].value) /\ pc' = "done"
       ELSE generate_result' = ErrResult(llm_calls[1].detail) /\ pc' = "error"
    /\ UNCHANGED <<op, text_len, llm_calls, generateFrame>>

\* join_all(futures).await, collect, `?`, merge_chunk_concepts
GenerateReturnsLong ==
    /\ op = "generate_concepts" /\ pc = "join"
    /\ text_len >= LongTextBytes
    /\ AllCompleted
    /\ LET chunk_concepts == CollectChunkConcepts(llm_calls)
       IN  IF chunk_concepts.status = "err"
           THEN generate_result' = chunk_concepts /\ pc' = "error"
           ELSE /\ \E m \in IntoValues(BestByName(chunk_concepts.value)) :
                      generate_result' = OkResult(m)
                /\ pc' = "done"
    /\ UNCHANGED <<op, text_len, llm_calls, generateFrame>>

InitGenerate ==
    /\ pc = "call"
    /\ op = "generate_concepts"
    /\ \/ text_len = LongTextBytes - 1 /\ llm_calls = <<LlmPending>>
       \/ /\ text_len = LongTextBytes
          /\ \E n \in 1..MaxLlmCalls : llm_calls = [k \in 1..n |-> LlmPending]
    /\ generate_result = NoResult
    /\ FirstIdle /\ RowIdle /\ NlpIdle /\ ErrorIdle /\ LayoutIdle /\ BoundaryIdle

NextGenerate ==
    GenerateStart \/ LlmCallCompletes \/ GenerateReturnsShort \/ GenerateReturnsLong

SpecGenerate == InitGenerate /\ [][NextGenerate]_vars

LongPathReturned ==
    /\ op = "generate_concepts" /\ text_len >= LongTextBytes
    /\ generate_result # NoResult

\* C27: on the long-text path, when the call for some chunk failed,
\* generate_concepts returns the failure of a failed chunk and no concepts,
\* whatever the other chunks gave; it returns a list only when every chunk
\* call succeeded, and the list is then the merge of all chunk lists.  It
\* returns only after every chunk call has completed.
ChunkFailureFailsGeneration ==
    LongPathReturned =>
        /\ AllCompleted
        /\ (\E k \in 1..Len(llm_calls) : llm_calls[k].state = "err") =>
              /\ generate_result.status = "err" /\ generate_result.value = <<>>
              /\ \E k \in 1..Len(llm_calls) :
                    llm_calls[k].state = "err" /\ generate_result.detail = llm_calls[k].detail
        /\ (\A k \in 1..Len(llm_calls) : llm_calls[k].state = "ok") =>
              /\ generate_result.status = "ok"
              /\ generate_result.value \in
                    IntoValues(BestByName([k \in 1..Len(llm_calls) |-> llm_calls[k].value]))

\* three chunks, the middle call failed, the two others gave concepts, and
\* generate_concepts returned the failure
ChunkFailureWitness ==
    /\ LongPathReturned /\ Len(llm_calls) = 3
    /\ llm_calls[2].state = "err"
    /\ llm_calls[1].state = "ok" /\ llm_calls[1].value # <<>>
    /\ llm_calls[3].state = "ok" /\ llm_calls[3].value # <<>>
    /\ generate_result.status = "err"

----------------------------------------------------------------------------
(* MindMapProcessor::run_force_directed_layout and apply_physics_step      *)
(* (dimensionality.rs).                                                    *)
(*                                                                         *)
(* Numbers are fixed-point with three decimals (Milli is 1.0), products    *)
(* and quotients truncated.  The nodes lie on the x axis, where            *)
(* initialize_pca_positions puts one or two nodes, and more nodes when the *)
(* projection has no spread in its other two components; every force then  *)
(* acts along x, so a position and a velocity are one number.  Nodes are   *)
(* numbered from 1.  The kinetic energy is kept in units of 10^-6, in      *)
(* which the convergence threshold 0.001 is Milli.                         *)

MaxNodes == 3

MaxIterations == 3

Milli == 1000

\* ForceParams::default(), and the same with no velocity kept (damping 0.0)
DefaultForceParams ==
    [attraction_strength |-> 2000, repulsion_strength |-> 10000, center_gravity |-> 100,
     damping |-> 900, max_velocity |-> 2000]

ForceParamsInputs ==
    { DefaultForceParams @@ [iterations |-> k] : k \in 0..MaxIterations }
    \cup { [DefaultForceParams EXCEPT !.damping = 0] @@ [iterations |-> k] :
             k \in 0..MaxIterations }

\* what build_similarity_matrix leaves for n nodes: symmetric with a zero
\* diagonal; here no pair is similar, or nodes 1 and 2 are, or all nodes are,
\* with similarity 0.5
SimilarityMatrices(n) ==
    { [i \in 1..n |-> [j \in 1..n |->
          IF i # j /\ i \in similar /\ j \in similar THEN Milli \div 2 ELSE 0]] :
      similar \in { {}, 1..Min(n, 2), 1..n } }

\* what initialize_pca_positions returns for n nodes: (i * 3.0 - 1.5) for one
\* or two nodes; above that the projection scaled to [-5, 5] (here the first
\* node at -5, the last at 5, the others all at -5, 0 or 5), or 0.0 for
\* every node when the projection has no spread
PcaPositions(n) ==
    IF n <= 2 THEN { [i \in 1..n |-> (i - 1) * 3 * Milli - (3 * Milli) \div 2] }
    ELSE { [i \in 1..n |-> 0] }
         \cup { [i \in 1..n |-> IF i = 1 THEN -5 * Milli ELSE IF i = n THEN 5 * Milli
                                 ELSE middle] :
                  middle \in { -5 * Milli, 0, 5 * Milli } }

AbsVal(x) == IF x < 0 THEN -x ELSE x

SignOf(x) == IF x > 0 THEN 1 ELSE IF x < 0 THEN -1 ELSE 0

\* a * b for fixed-point a and b
MulMilli(a, b) ==
    SignOf(a) * SignOf(b)
        * ((AbsVal(a) \div Milli) * AbsVal(b) + ((AbsVal(a) % Milli) * AbsVal(b)) \div Milli)

\* subtract_and_normalize(a, b) on the axis: 1.0, -1.0, or 0.0 when the two
\* are closer than 0.0001
SubtractAndNormalize(a, b) == SignOf(a - b)

\* calculate_distance
CalculateDistance(a, b) == AbsVal(a - b)

\* clamp_magnitude
ClampMagnitude(v, max_mag) == IF AbsVal(v) > max_mag THEN SignOf(v) * max_mag ELSE v

\* the velocity apply_physics_step computes for node i from the positions `from`
Velocity(i, from, matrix, params) ==
    LET n == Len(from)
        attraction ==
            [j \in 1..n |->
                IF i # j /\ matrix[i][j] > 0
                THEN SubtractAndNormalize(from[j], from[i])
                         * MulMilli(matrix[i][j], params.attraction_strength)
                ELSE 0]
        repulsion ==
            [j \in 1..n |->
                IF i # j
                THEN LET distance == CalculateDistance(from[i], from[j])
                     IN  SubtractAndNormalize(from[i], from[j])
                             * ((params.repulsion_strength * Milli)
                                    \div (MulMilli(distance, distance) + Milli \div 100))
                ELSE 0]
        to_center == MulMilli(from[i], -params.center_gravity)
        velocity == SumTo(attraction, n) + SumTo(repulsion, n) + to_center
    IN  ClampMagnitude(MulMilli(velocity, params.damping), params.max_velocity)

\* the positions a node's update reads, with a fault: the positions as updated
\* so far in this step
ReadsUpdated(old_positions, new_positions) == new_positions

\* the positions a node's update reads: self.positions, which the step leaves
\* alone until all nodes are done
ReadsFrom(old_positions, new_positions) == old_positions

\* the body of the loop of apply_physics_step for node i; `acc` is what the
\* passes before it left: [new_positions, total_energy]
NodeUpdate(acc, old_positions, i, matrix, params) ==
    LET from == ReadsFrom(old_positions, acc.new_positions)
    IN  CHOOSE next \in
            { [new_positions |-> [acc.new_positions EXCEPT ![i] = from[i] + velocity],
               total_energy |-> acc.total_energy + velocity * velocity] :
              velocity \in { Velocity(i, from, matrix, params) } } : TRUE

\* the loop of apply_physics_step over the nodes in the order `order`
RECURSIVE PhysicsLoop(_, _, _, _, _)
PhysicsLoop(acc, old_positions, order, matrix, params) ==
    IF order = <<>> THEN acc
    ELSE CHOOSE out \in
             { PhysicsLoop(NodeUpdate(a, old_positions, Head(order), matrix, params),
                           old_positions, Tail(order), matrix, params) : a \in { acc } } : TRUE

PhysicsStep(old_positions, order, matrix, params) ==
    PhysicsLoop([new_positions |-> old_positions, total_energy |-> 0],
                old_positions, order, matrix, params)

\* the break test with a fault: the energy is never low enough
ConvergedNever(energy) == FALSE

\* total_energy < convergence_threshold
Converged(energy) == energy < Milli

\* n == 0, or initialize_pca_positions fails or returns the first positions
InitializePositions ==
    /\ op = "run_force_directed_layout" /\ pc = "call"
    /\ LET n == Len(similarity_matrix)
       IN  \/ /\ n > 0
              /\ positions' \in PcaPositions(n)
              /\ pc' = "loop"
           \/ /\ n = 0 \/ n > 2
              /\ positions' = positions
              /\ pc' = "error"
    /\ UNCHANGED <<op, similarity_matrix, layoutVars, layoutFrame>>

\* one pass of `for iteration in 0..self.force_params.iterations`
ApplyPhysicsStep ==
    /\ op = "run_force_directed_layout" /\ pc = "loop"
    /\ iteration < force_params.iterations
    /\ \E step \in { PhysicsStep(positions, [i \in 1..Len(positions) |-> i],
                                   similarity_matrix, force_params) } :
          /\ positions' = step.new_positions
          /\ total_energy' = step.total_energy
          /\ pc' = IF Converged(step.total_energy) THEN "done" ELSE "loop"
    /\ iteration' = iteration + 1
    /\ UNCHANGED <<op, similarity_matrix, force_params, layoutFrame>>

\* the range is exhausted: Ok(())
LayoutReturns ==
    /\ op = "run_force_directed_layout" /\ pc = "loop"
    /\ iteration >= force_params.iterations
    /\ pc' = "done"
    /\ UNCHANGED <<op, positions, similarity_matrix, layoutVars, layoutFrame>>

InitLayout ==
    /\ pc = "call"
    /\ op = "run_force_directed_layout"
    /\ \E n \in 0..MaxNodes : similarity_matrix \in SimilarityMatrices(n)
    /\ positions = <<>>
    /\ force_params \in ForceParamsInputs
    /\ iteration = 0 /\ total_energy = 0
    /\ TextIdle /\ concepts = <<>> /\ embeddings = <<>> /\ merged_groups = <<>>
    /\ concept_groups = <<>>
    /\ ParseIdle /\ MergeIdle /\ BatchIdle /\ RequestIdle
    /\ RowIdle /\ NlpIdle /\ ErrorIdle /\ GenerateIdle /\ BoundaryIdle

NextLayout == InitializePositions \/ ApplyPhysicsStep \/ LayoutReturns

SpecLayout == InitLayout /\ [][NextLayout]_vars

\* the loop runs in the calling thread: a step that can be taken is taken
SpecLayoutFair == SpecLayout /\ WF_vars(NextLayout)

LayoutFinished == pc \in { "done", "error" }

\* C28: run_force_directed_layout terminates; it performs at most `iterations`
\* physics steps, and after a step whose energy is below 0.001 it performs no
\* further step: while the loop is running, every step so far returned an
\* energy of at least 0.001.
LayoutTerminates ==
    /\ <>LayoutFinished
    /\ [](iteration <= force_params.iterations)
    /\ []((pc = "loop" /\ iteration > 0) => total_energy >= Milli)

\* the layout stopped on a low energy before the range was exhausted
LayoutConvergedWitness ==
    /\ op = "run_force_directed_layout" /\ pc = "done"
    /\ iteration > 0 /\ iteration < force_params.iterations
    /\ total_energy < Milli

\* C29: the positions a physics step leaves are the same in whatever order the
\* nodes are processed: each node's new position is computed from the
\* positions all nodes had when the step began.
StepOrderIndependent ==
    [][ApplyPhysicsStep =>
          \A order \in Orders(1..Len(positions)) :
              /\ positions' =
                    PhysicsStep(positions, order, similarity_matrix, force_params).new_positions
              /\ \A i \in 1..Len(positions) :
                    positions'[i] = positions[i]
                        + Velocity(i, positions, similarity_matrix, force_params)]_vars

\* a step has moved three nodes that attract and repel each other
StepOrderWitness ==
    /\ op = "run_force_directed_layout" /\ iteration > 0
    /\ Len(positions) = 3
    /\ similarity_matrix[1][2] > 0
    /\ \A i \in 1..3 : positions[i] \notin { -5 * Milli, 0, 5 * Milli }

----------------------------------------------------------------------------
(* The sentence tier of find_last_boundary, one regex match at a time, as  *)
(* truncate_at_sentence_boundary calls it (truncation.rs).                 *)
(*                                                                         *)
(* A text is up to MaxPieces pieces (a word and its punctuation, a         *)
(* paragraph break, a heading mark, a no-break space), then a run of "x"   *)
(* of up to MaxPad fifths, then one more character, "x" or the two-byte    *)
(* U+00E9.  The limit max_bytes falls before that last character or one    *)
(* byte after its start.                                                   *)

MaxPieces == 2

MaxPad == 3

\* let min_pos = window.len() / 5
Fifth == 5

\* "n" (a single letter), "no" and "No" (an abbreviation), "co" (a TLD),
\* "on" (a word), ")" (one character that is not a letter)
BoundaryWords == { <<110>>, <<110, 111>>, <<78, 111>>, <<99, 111>>, <<111, 110>>, <<41>> }

\* each word with ". ", then "on.\n", "\n\n", "\n#" and U+00A0
BoundaryPieces ==
    { word \o <<46, 32>> : word \in BoundaryWords }
    \cup { <<111, 110, 46, 10>>, <<10, 10>>, <<10, 35>>, <<194, 160>> }

RECURSIVE PieceTexts(_)
PieceTexts(k) ==
    IF k = 0 THEN { <<>> }
    ELSE PieceTexts(k - 1)
         \cup { t \o piece : t \in PieceTexts(k - 1), piece \in BoundaryPieces }

BoundaryBodies ==
    { t \o [i \in 1..(Fifth * k) |-> 120] : t \in PieceTexts(MaxPieces), k \in 0..MaxPad }

SetMin(S) == CHOOSE x \in S : \A y \in S : x <= y

\* the start of the next match sentence_re.find_iter yields when it searches
\* from byte position `from`
NextMatch(win, from) ==
    LET later == { p \in SentenceMatches(win) : p >= from }
    IN  IF later = {} THEN NotFound ELSE SetMin(later)

\* tiers B to F of find_last_boundary
LowerTier(win) ==
    LET min_pos == MinPos(win)
        paragraph == RFindStr(win, <<10, 10>>)
        heading == RFindStr(win, <<10, 35>>)
        newline == RFindStr(win, <<10>>)
        ws == RFindWhitespace(win)
    IN  IF paragraph # NotFound /\ paragraph >= min_pos
        THEN [pos |-> paragraph, tier |-> "paragraph"]
        ELSE IF heading # NotFound /\ heading >= min_pos
        THEN [pos |-> heading, tier |-> "heading"]
        ELSE IF newline # NotFound /\ newline >= min_pos
        THEN [pos |-> newline, tier |-> "newline"]
        ELSE IF ws # NotFound /\ ws > 0
        THEN [pos |-> ws, tier |-> "whitespace"]
        ELSE [pos |-> Len(win), tier |-> "window"]

\* the test of the sentence loop with a fault: the abbreviation test is left out
KeepsCutAnyToken(win, m) == m + 2 >= MinPos(win)

\* cut >= min_pos && !is_abbreviation(window, m.start())
KeepsCut(win, m) == m + 2 >= MinPos(win) /\ ~IsAbbreviation(win, m)

\* text.len() <= max_bytes, safe_end == 0, or the window is taken
TakeWindow ==
    /\ op = "truncate_at_sentence_boundary" /\ pc = "call"
    /\ LET safe_end == SafeEnd(text, max_bytes)
       IN  IF Len(text) <= max_bytes
           THEN result' = text /\ pc' = "done" /\ window' = window
           ELSE IF safe_end = 0
           THEN result' = <<>> /\ pc' = "done" /\ window' = window
           ELSE window' = Slice(text, 0, safe_end) /\ pc' = "scan" /\ result' = result
    /\ UNCHANGED <<op, text, max_bytes, next_match, best_sentence, decided, boundaryFrame>>

\* one pass of `for m in sentence_re.find_iter(window)`
ScanMatch ==
    /\ op = "truncate_at_sentence_boundary" /\ pc = "scan"
    /\ NextMatch(window, next_match) # NotFound
    /\ LET m == NextMatch(window, next_match)
           cut == m + 2
       IN  /\ next_match' = cut
           /\ IF cut >= MinPos(window) /\ AbbrevPanics(window, m)
              THEN pc' = "panic" /\ best_sentence' = best_sentence
              ELSE /\ pc' = "scan"
                   /\ best_sentence' = IF KeepsCut(window, m) THEN cut ELSE best_sentence
    /\ UNCHANGED <<op, text, max_bytes, result, window, decided, boundaryFrame>>

\* the matches are exhausted: find_last_boundary returns best_sentence or
\* what a lower tier finds, and the caller appends "..."
BoundaryReturns ==
    /\ op = "truncate_at_sentence_boundary" /\ pc = "scan"
    /\ NextMatch(window, next_match) = NotFound
    /\ \E found \in { IF best_sentence # NotFound
                      THEN [pos |-> best_sentence, tier |-> "sentence"]
                      ELSE LowerTier(window) } :
          /\ decided' = found
          /\ result' = Slice(text, 0, found.pos) \o Ellipsis
    /\ pc' = "done"
    /\ UNCHANGED <<op, text, max_bytes, window, next_match, best_sentence, boundaryFrame>>

InitBoundary ==
    /\ pc = "call"
    /\ op = "truncate_at_sentence_boundary"
    /\ \E body \in BoundaryBodies, last \in { <<120>>, <<195, 169>> } :
          /\ text = body \o last
          /\ max_bytes \in { Len(body), Len(body) + 1 }
    /\ chunk_size = 0 /\ overlap = 0 /\ start = 0 /\ chunks = <<>> /\ spans = <<>>
    /\ result = <<>>
    /\ MapIdle /\ ParseIdle /\ MergeIdle /\ BatchIdle /\ RequestIdle
    /\ RowIdle /\ NlpIdle /\ ErrorIdle /\ GenerateIdle /\ LayoutIdle /\ BoundaryIdle

NextBoundary == TakeWindow \/ ScanMatch \/ BoundaryReturns

SpecBoundary == InitBoundary /\ [][NextBoundary]_vars

\* where the token that ends at byte p begins: after the last white-space
\* character before p, or at the start of the window
TokenStart(win, p) ==
    SetMin({ q \in 0..p :
               /\ IsCharBoundary(win, q)
               /\ \A k \in q..p : ~(IsCharBoundary(win, k) /\ IsWhitespaceAt(win, k)) })

\* the token before the punctuation of the match at p is an abbreviation, a
\* TLD or a single letter
TokenNotSentenceEnd(win, p) ==
    LET token == ToLowercase(Slice(win, TokenStart(win, p), p + 1))
    IN  \/ token \in ABBREVIATIONS \cup TLDS
        \/ Len(token) = 1 /\ IsAsciiAlphabetic(token[1])

\* the regex matches whose cut is at least `least` and whose token may end a sentence
AcceptableMatches(win, least) ==
    { p \in SentenceMatches(win) : p + 2 >= least /\ ~TokenNotSentenceEnd(win, p) }

BoundaryReturned ==
    op = "truncate_at_sentence_boundary" /\ pc = "done" /\ decided # NoBoundary

\* C30 as stated: a match is accepted only if its cut is at least one fifth of
\* the byte limit max_bytes and its token is not an abbreviation, a TLD or a
\* single letter; the last accepted candidate is the cut, and no lower tier
\* decides when a candidate was accepted.
SentenceTierByLimit ==
    /\ best_sentence # NotFound =>
          best_sentence - 2 \in AcceptableMatches(window, max_bytes \div Fifth)
    /\ (BoundaryReturned /\ best_sentence # NotFound) =>
          decided = [pos |-> best_sentence, tier |-> "sentence"]

\* C30, amended: the matches accepted are those whose cut is at least one fifth
\* (integer division) of the byte length of the window, which is the limit
\* lowered to a char boundary, and whose token is not an abbreviation, a TLD or
\* a single letter; when there is one, the cut is two bytes after the start of
\* the last of them and no lower tier decides; when there is none, the
\* sentence tier does not decide.
SentenceTierByWindow ==
    /\ best_sentence # NotFound =>
          best_sentence - 2 \in AcceptableMatches(window, Len(window) \div Fifth)
    /\ BoundaryReturned =>
          LET acceptable == AcceptableMatches(window, Len(window) \div Fifth)
          IN  IF acceptable = {}
              THEN best_sentence = NotFound /\ decided = LowerTier(window)
              ELSE /\ decided = [pos |-> SetMax(acceptable) + 2, tier |-> "sentence"]
                   /\ result = Slice(window, 0, SetMax(acceptable) + 2) \o Ellipsis

\* the sentence tier decided on a window shorter than the limit, although a
\* later match was rejected for its token and a newline lies after the cut
SentenceTierWitness ==
    /\ BoundaryReturned
    /\ decided.tier = "sentence"
    /\ Len(window) < max_bytes
    /\ \E p \in SentenceMatches(window) : p + 2 > decided.pos
    /\ RFindStr(window, <<10>>) >= decided.pos
    /\ RFindStr(window, <<10>>) >= MinPos(window)

====
